---------------------------- MODULE StreamsProofs ----------------------------
(***************************************************************************)
(* Proofs about Streams: the types, among them that the count of queued    *)
(* buffers neither falls below zero nor exceeds the buffers, and that      *)
(* every buffer is accounted for.                                          *)
(***************************************************************************)
EXTENDS Streams, FiniteSetTheorems, TLAPS

-----------------------------------------------------------------------------
(* The inductive invariant.                                                *)

\* The caller: where start and stop may be.
NoOne == {NoCall, [NoCall EXCEPT !.at = "lost"]}
Starting == {"get", "request", "queue", "ioctl", "on", "wait", "join"}
Stopping == {"off", "wait", "join", "unreg", "put"}
Filling == caller.at \in {"queue", "ioctl"}

CallInv ==
  \/ caller \in NoOne
  \/ /\ caller \in [op : {"start", "undo", "stop"}, at : Starting \cup Stopping,
                    i : 1 .. Len(setup.order)]
     /\ caller.at \in (IF caller.op = "start" THEN Starting ELSE Stopping)

\* The streams: those not yet started are as they were; the one in the caller's hands
\* is as far as the caller is.
StateInv ==
  /\ thread = {s \in Called : state[s] = "ACTIVE"}
  /\ caller.op = "start" =>
       \A j \in caller.i .. Len(setup.order) :
         (j > caller.i \/ caller.at = "get") => state[setup.order[j]] = "CFG"
  /\ caller.at \in {"request", "queue", "ioctl"} => state[Current] = "BUFFED"
  /\ caller.at \in {"on", "wait", "join"} => state[Current] = "ACTIVE"
  /\ caller.at = "unreg" => state[Current] # "ACTIVE"

\* The kernel: it streams for active streams only, and not for the one that is being
\* started or has been stopped.
KernelInv ==
  /\ \A s \in Streams :
       kernel[s].streaming => state[s] = "ACTIVE" /\ kernel[s].requested
  /\ caller.at \in {"queue", "ioctl", "on"} =>
       /\ kernel[Current].requested /\ ~kernel[Current].streaming
       /\ kernel[Current].filled = {}
  /\ Filling => kernel[Current].queued \subseteq
                  setup.buffers[Current] \ setup.held[Current]
  /\ caller.at = "ioctl" => ToQueue # {}
  /\ caller.at = "join" \/ (caller.op = "start" /\ caller.at = "wait") =>
       ~kernel[Current].streaming

\* The poll thread: the stream whose frame it has is active, or was when the caller
\* was lost, and nobody has the buffer before it is given.
PollInv ==
  /\ poll.buf = << >> <=> poll.at \in {"poll", "loop"}
  /\ poll.buf # << >> =>
       /\ \/ state[poll.buf[1]] = "ACTIVE"
          \/ caller.at = "lost" /\ state[poll.buf[1]] = "REG"
       /\ users[poll.buf] \subseteq {"channel"}
       /\ poll.at # "call" =>
            users[poll.buf] = {} /\ \A u \in Users : done[<<poll.buf, u>>] = "no"
       /\ poll.at \in {"read", "counted"} => refcnt[poll.buf] = 0

InKernel(p) == p[2] \in kernel[p[1]].queued \cup kernel[p[1]].filled

\* A buffer: who has it, and where its way back is.
UserInv(p) ==
  /\ \A u \in Users : done[<<p, u>>] = "checked" => u \in users[p]
  /\ \A u \in Users : done[<<p, u>>] \in {"queue", "ioctl"} =>
       /\ users[p] = {} /\ Ungiven(p) = 0 /\ ~InKernel(p)
       /\ \A v \in Users \ {u} : done[<<p, v>>] = "no"
  /\ InKernel(p) =>
       users[p] = {} /\ Ungiven(p) = 0 /\ \A u \in Users : done[<<p, u>>] = "no"
  /\ InKernel(p) /\ poll.buf = p => poll.at = "call"
  /\ ~(p[2] \in kernel[p[1]].queued /\ p[2] \in kernel[p[1]].filled)
  /\ "thread" \in users[p] =>
       state[p[1]] = "ACTIVE" /\ (done[<<p, "thread">>] = "no" => "app" \notin users[p])
  /\ state[p[1]] = "CFG" => users[p] = {} /\ \A u \in Users : done[<<p, u>>] = "no"
  /\ caller.at \in {"request", "queue", "ioctl"} /\ Current = p[1] =>
       \A u \in Users : done[<<p, u>>] = "no"

\* Its reference count, exact while the stream is active.  A stream whose buffers are
\* taken away has references that are none of the count's business; they never
\* look like the last one.
RefInv(p) ==
  LET c == Cardinality(users[p]) IN
  /\ state[p[1]] = "ACTIVE" => refcnt[p] = c + Ungiven(p)
  /\ state[p[1]] = "REG" => c + Ungiven(p) <= refcnt[p] /\ refcnt[p] <= 3
  /\ state[p[1]] = "BUFFED" /\ (\E u \in Users : done[<<p, u>>] = "checked") =>
       refcnt[p] = 0 \/ refcnt[p] >= 253 + c
  /\ Filling /\ Current = p[1] =>
       IF p[2] \in setup.held[p[1]] THEN users[p] = {"app"} /\ refcnt[p] = 1
       ELSE users[p] = {} /\ (p[2] \in kernel[p[1]].queued => refcnt[p] = 0)

\* A buffer that the channel does not have is never used; one that it has is, once the
\* stream is on, with somebody.
LossInv(p) ==
  /\ p[2] \notin setup.buffers[p[1]] =>
       /\ users[p] = {} /\ refcnt[p] = 0 /\ ~InKernel(p) /\ poll.buf # p
       /\ \A u \in Users : done[<<p, u>>] = "no"
  /\ (kernel[p[1]].streaming \/ (caller.at = "on" /\ Current = p[1]))
       /\ users[p] = {} /\ p[2] \in setup.buffers[p[1]] =>
       \/ InKernel(p)
       \/ poll.buf = p /\ (poll.at # "call" \/ p[1] \in Called)
       \/ \E u \in Users : done[<<p, u>>] # "no"
       \/ p \in lost

\* A buffer that a failure has lost is nowhere else, and the next start of its stream
\* finds it.
Gone(p) ==
  /\ users[p] = {} /\ Ungiven(p) = 0 /\ ~InKernel(p)
  /\ \A u \in Users : done[<<p, u>>] = "no"
  /\ poll.buf = p => poll.at = "call"
  /\ ~(Filling /\ Current = p[1])
LostInv == lost \subseteq Pairs /\ \A p \in lost : Gone(p)

NextBuf == CHOOSE b \in ToQueue : TRUE

\* The buffers of a stream that its counter counts for sure, and those it may count.
Placing(p) == caller.at = "ioctl" /\ Current = p[1] /\ NextBuf = p[2]
IsCounted(p) ==
  \/ InKernel(p) \/ \E u \in Users : done[<<p, u>>] = "ioctl"
  \/ poll.buf = p /\ poll.at = "read"
  \/ Placing(p)
IsCountable(p) ==
  /\ users[p] = {} /\ \A u \in Users : done[<<p, u>>] # "queue"
  /\ Ungiven(p) = 0 /\ ~(poll.buf = p /\ poll.at = "counted")
Counted(s) == {b \in Buffers : IsCounted(<<s, b>>)}
Countable(s) == {b \in Buffers : IsCountable(<<s, b>>)}

CountInv(s) ==
  /\ Cardinality(Counted(s)) <= count[s] /\ count[s] <= Cardinality(Countable(s))
  /\ Filling /\ Current = s => count[s] = Cardinality(Counted(s))

-----------------------------------------------------------------------------
(* Data.                                                                   *)

KernelSide ==
  [requested : BOOLEAN, streaming : BOOLEAN, queued : SUBSET Buffers, filled : SUBSET Buffers]

\* TypeOK, with the domains and without the bound on the count.
ChTypes ==
  /\ setup \in Setups
  /\ state \in [Streams -> {"CFG", "BUFFED", "REG", "ACTIVE"}]
  /\ thread \subseteq Called
  /\ starts \in 0 .. MaxStarts
BufTypes ==
  /\ count \in [Streams -> Int]
  /\ refcnt \in [Pairs -> 0 .. 255]
  /\ users \in [Pairs -> SUBSET Users]
  /\ done \in [Pairs \X Users -> {"no", "checked", "queue", "ioctl"}]
EntryTypes ==
  /\ poll_entries \subseteq Streams /\ poll_fds \subseteq Streams
  /\ pipe \in Seq({"async", "sync"})
  /\ synced \in BOOLEAN
PollTypes ==
  poll \in [at : {"poll", "loop", "read", "counted", "give", "call"},
            ready : SUBSET Streams, buf : Pairs \cup {<< >>}]
Types ==
  ChTypes /\ BufTypes /\ kernel \in [Streams -> KernelSide] /\ EntryTypes /\ PollTypes

\* poll.buf is empty when the poll thread has no buffer.
LEMMA NoPair == << >> \notin Pairs
BY DEF Pairs

\* A buffer is a stream and its number.
LEMMA PairFacts ==
  ASSUME NEW p \in Pairs
  PROVE  p[1] \in Streams /\ p[2] \in Buffers /\ p = <<p[1], p[2]>> /\ p # << >>
BY NoPair DEF Pairs

\* Every stream has a user; the rest of the constants' assumption.
LEMMA Subscribers ==
  /\ Called \subseteq Streams /\ Bundled \subseteq Streams /\ Streams \subseteq Bundled \cup Called
  /\ MaxStarts \in Nat
BY StreamsAssumption

\* The streams of a channel are different ones.
LEMMA OrderFacts ==
  ASSUME NEW c \in Setups
  PROVE  /\ c.order \in Seq(Streams) /\ Len(c.order) \in Nat \ {0}
         /\ \A i \in 1 .. Len(c.order) : c.order[i] \in Streams
         /\ \A i, j \in 1 .. Len(c.order) : c.order[i] = c.order[j] => i = j
<1>1. c.order \in Seq(Streams) /\ c.order # << >> /\ Len(c.order) = Cardinality(ToSet(c.order))
  BY StreamsAssumption
<1>2. Len(c.order) \in Nat /\ Len(c.order) # 0 /\ DOMAIN c.order = 1 .. Len(c.order)
  BY <1>1
<1> DEFINE D == 1 .. Len(c.order)
           R == ToSet(c.order)
<1>3. R = {c.order[i] : i \in D}
  BY <1>2 DEF ToSet
<1>4. c.order \in Surjection(D, R)
  <2>1. c.order \in [D -> R]
    <3>1. c.order \in [D -> Streams]
      BY <1>1
    <3>2. \A i \in D : c.order[i] \in R
      BY <1>3
    <3> HIDE DEF R
    <3> QED
      BY <3>1, <3>2
  <2>2. \A t \in R : \E i \in D : c.order[i] = t
    BY <1>3
  <2> QED
    BY <2>1, <2>2 DEF Surjection
<1>5. IsFiniteSet(D) /\ Cardinality(D) = Len(c.order)
  BY <1>2, FS_Interval
<1>6. c.order \in Injection(D, R)
  BY <1>1, <1>4, <1>5, FS_SurjSameCardinalityImpliesInj
<1>7. \A i, j \in D : c.order[i] = c.order[j] => i = j
  <2>1. IsInjective(c.order) /\ DOMAIN c.order = D
    BY <1>2, <1>6 DEF Injection
  <2> QED
    BY <2>1 DEF IsInjective
<1> QED
  BY <1>1, <1>2, <1>7

\* The stream in the caller's hands is one of the channel's.
LEMMA CurrentIs ==
  ASSUME setup \in Setups, caller.i \in 1 .. Len(setup.order)
  PROVE  Current \in ToSet(setup.order) /\ Current \in Streams
<1> DEFINE o == setup.order
           last == Tail(o) \o <<Head(o)>>
<1>1. o \in Seq(Streams) /\ Len(o) \in Nat /\ Len(o) # 0 /\ caller.i \in 1 .. Len(o)
  BY OrderFacts
<1>2. o[caller.i] \in ToSet(o)
  BY <1>1 DEF ToSet
<1>3. last[caller.i] \in ToSet(o)
  <2>1. CASE caller.i = Len(o)
    <3>1. last[caller.i] = o[1]
      BY <1>1, <2>1
    <3> QED
      BY <1>1, <3>1 DEF ToSet
  <2>2. CASE caller.i # Len(o)
    <3>1. last[caller.i] = o[caller.i + 1] /\ caller.i + 1 \in 1 .. Len(o)
      BY <1>1, <2>2
    <3> QED
      BY <1>1, <3>1 DEF ToSet
  <2> QED
    BY <2>1, <2>2
<1>4. Current \in ToSet(o)
  BY <1>2, <1>3 DEF Current
<1>5. ToSet(o) \subseteq Streams
  BY <1>1 DEF ToSet
<1> QED
  BY <1>4, <1>5

\* What the channel says of a stream's buffers.
LEMMA SetupFacts ==
  ASSUME setup \in Setups, caller.i \in 1 .. Len(setup.order)
  PROVE  setup.held[Current] \subseteq setup.buffers[Current]
         /\ setup.buffers[Current] \subseteq Buffers
BY CurrentIs, StreamsAssumption

\* The sets of users are small.
LEMMA UsersCount ==
  ASSUME NEW S \in SUBSET Users
  PROVE  /\ Cardinality(S) \in 0 .. 3
         /\ Cardinality(S) = 0 <=> S = {}
         /\ \A u : Cardinality(S \cup {u}) = IF u \in S THEN Cardinality(S) ELSE Cardinality(S) + 1
         /\ \A u : Cardinality(S \ {u}) = IF u \in S THEN Cardinality(S) - 1 ELSE Cardinality(S)
<1>1. IsFiniteSet(Users) /\ Cardinality(Users) = 3
  <2> DEFINE A == {} \cup {"channel"}
             B == A \cup {"thread"}
  <2>1. Users = B \cup {"app"}
    BY DEF Users
  <2>2. IsFiniteSet(A) /\ Cardinality(A) = 1
    BY FS_EmptySet, FS_AddElement
  <2>3. "thread" \notin A /\ "app" \notin B
    OBVIOUS
  <2> HIDE DEF A
  <2>4. IsFiniteSet(B) /\ Cardinality(B) = 2
    BY <2>2, <2>3, FS_AddElement
  <2> HIDE DEF B
  <2> QED
    BY <2>1, <2>3, <2>4, FS_AddElement
<1>2. IsFiniteSet(S) /\ Cardinality(S) <= 3
  BY <1>1, FS_Subset
<1>3. Cardinality(S) \in Nat
  BY <1>2, FS_CardinalityType
<1>4. \A u : Cardinality(S \cup {u}) = IF u \in S THEN Cardinality(S) ELSE Cardinality(S) + 1
  BY <1>2, FS_AddElement
<1>5. \A u : Cardinality(S \ {u}) = IF u \in S THEN Cardinality(S) - 1 ELSE Cardinality(S)
  BY <1>2, FS_RemoveElement
<1>6. Cardinality(S) = 0 <=> S = {}
  BY <1>2, FS_EmptySet
<1> QED
  BY <1>2, <1>3, <1>4, <1>5, <1>6

\* Who is the only user.
LEMMA SingleUser ==
  ASSUME NEW S \in SUBSET Users, NEW u \in S, Cardinality(S) <= 1
  PROVE  S = {u}
<1>1. Cardinality(S \ {u}) = Cardinality(S) - 1 /\ Cardinality(S) \in 0 .. 3
  BY UsersCount
<1>2. S \ {u} \in SUBSET Users
  OBVIOUS
<1>3. Cardinality(S \ {u}) = 0
  BY <1>1, <1>2, UsersCount
<1> QED
  BY <1>2, <1>3, UsersCount

\* A step of a user that gives a buffer back.
LEMMA AtIs ==
  ASSUME Types, NEW p \in Pairs, NEW u \in Users, NEW step,
         done' = [done EXCEPT ![<<p, u>>] = step]
  PROVE  /\ done'[<<p, u>>] = step
         /\ \A q \in Pairs, v \in Users : q # p \/ v # u => done'[<<q, v>>] = done[<<q, v>>]
BY DEF Types, BufTypes

\* Counting up and down, and sending to the poll thread.
LEMMA Counters ==
  ASSUME Types, NEW s \in Streams, CountUp(s) \/ CountDown(s)
  PROVE  /\ count' \in [Streams -> Int] /\ \A t \in Streams \ {s} : count'[t] = count[t]
         /\ CountUp(s) => count'[s] = count[s] + 1
         /\ CountDown(s) => count'[s] = count[s] - 1
         /\ poll_entries' \subseteq Streams /\ pipe' \in Seq({"async", "sync"})
<1>1. count \in [Streams -> Int] /\ poll_entries \subseteq Streams /\ pipe \in Seq({"async", "sync"})
  BY DEF Types, BufTypes, EntryTypes
<1>2. pipe' = pipe \/ pipe' = Append(pipe, "async")
  BY DEF CountUp, CountDown, Send
<1>3. pipe' \in Seq({"async", "sync"})
  BY <1>1, <1>2
<1>4. poll_entries' \subseteq Streams
  BY <1>1 DEF CountUp, CountDown
<1>5. count' = [count EXCEPT ![s] = count[s] + 1] \/ count' = [count EXCEPT ![s] = count[s] - 1]
  BY DEF CountUp, CountDown
<1>6. count' \in [Streams -> Int] /\ \A t \in Streams \ {s} : count'[t] = count[t]
  BY <1>1, <1>5
<1> QED
  BY <1>1, <1>3, <1>4, <1>6 DEF CountUp, CountDown

\* The command to delete a stream's entry keeps the entries and the pipe of their types.
LEMMA Deleting ==
  ASSUME Types, NEW s \in Streams, Delete(s)
  PROVE  poll_entries' \subseteq Streams /\ pipe' \in Seq({"async", "sync"}) /\ synced' \in BOOLEAN
<1>1. poll_entries \subseteq Streams /\ pipe \in Seq({"async", "sync"}) /\ synced \in BOOLEAN
  BY DEF Types, EntryTypes
<1>2. pipe' = pipe \/ pipe' = Append(pipe, "sync")
  BY DEF Delete, Send
<1>3. pipe' \in Seq({"async", "sync"})
  BY <1>1, <1>2
<1> QED
  BY <1>1, <1>3 DEF Delete

\* A change of one stream's side of the kernel.
LEMMA KernelChange ==
  ASSUME Types, NEW s \in Streams, NEW k \in KernelSide, kernel' = [kernel EXCEPT ![s] = k]
  PROVE  kernel' \in [Streams -> KernelSide] /\ kernel'[s] = k /\ \A t \in Streams \ {s} : kernel'[t] = kernel[t]
BY DEF Types

\* A change of one buffer's users and references.
LEMMA UsersChange ==
  ASSUME Types, NEW p \in Pairs, NEW S, users' = [users EXCEPT ![p] = S]
  PROVE  users'[p] = S /\ \A q \in Pairs \ {p} : users'[q] = users[q]
BY DEF Types, BufTypes

\* A change of one buffer's count is that buffer's alone.
LEMMA RefChange ==
  ASSUME Types, NEW p \in Pairs, NEW n, refcnt' = [refcnt EXCEPT ![p] = n]
  PROVE  refcnt'[p] = n /\ \A q \in Pairs \ {p} : refcnt'[q] = refcnt[q]
BY DEF Types, BufTypes

-----------------------------------------------------------------------------
(* The caller and the types.                                               *)

\* The parts that say where the caller and the poll thread are.
Places == Types /\ CallInv /\ StateInv /\ KernelInv /\ PollInv

\* A call under way has a stream in its hands.
LEMMA CalledIs ==
  ASSUME Types, CallInv, caller.at \notin {"none", "lost"}
  PROVE  /\ caller \in [op : {"start", "undo", "stop"}, at : Starting \cup Stopping,
                        i : 1 .. Len(setup.order)]
         /\ caller.at \in (IF caller.op = "start" THEN Starting ELSE Stopping)
         /\ Current \in Streams /\ Len(setup.order) \in Nat \ {0}
         /\ setup.held[Current] \subseteq setup.buffers[Current]
         /\ setup.buffers[Current] \subseteq Buffers
<1>1. caller \notin NoOne
  BY DEF NoOne, NoCall
<1>2. /\ caller \in [op : {"start", "undo", "stop"}, at : Starting \cup Stopping,
                     i : 1 .. Len(setup.order)]
      /\ caller.at \in (IF caller.op = "start" THEN Starting ELSE Stopping)
  BY <1>1 DEF CallInv
<1>3. caller.i \in 1 .. Len(setup.order) /\ setup \in Setups
  BY <1>2 DEF Types, ChTypes
<1> QED
  BY <1>2, <1>3, CurrentIs, SetupFacts, OrderFacts

\* All of it holds before the first start.
LEMMA InitPlaces == Init => Places
<1> SUFFICES ASSUME Init PROVE Places
  OBVIOUS
<1>1. Types
  BY Subscribers DEF Init, Types, ChTypes, BufTypes, EntryTypes, PollTypes, KernelSide, Quiet, Polling
<1>2. CallInv /\ caller.at = "none" /\ caller.op = "none"
  BY DEF Init, CallInv, NoOne, NoCall
<1>3. StateInv
  BY <1>2, Subscribers DEF Init, StateInv
<1>4. KernelInv
  BY <1>2 DEF Init, KernelInv, Quiet, Filling
<1>5. PollInv
  BY DEF Init, PollInv, Polling
<1> QED
  BY <1>1, <1>2, <1>3, <1>4, <1>5 DEF Places

\* A call is always at one of its steps, for a stream of the channel.
LEMMA CallStep ==
  ASSUME Types, CallInv, Next
  PROVE  CallInv' /\ setup' = setup
<1>1. setup' = setup
  BY DEF Next, Start, Stop, CallGoesOn, PollThread, KernelFills, Dispatch, QBuf, Finish,
         GetBuf, RequestBuf, QueueCounts, QueueIoctl, Launch, StreamOn, StreamOff, Synced,
         Join, UnregBuf, PutBuf, PollCommand, PollReturns, PollLoopEnds, DataNotify,
         ReadMsmFrame, CountReferences, NotifyChannel, NotifyThread, BufDone, QBufCounts,
         QBufIoctl, chVars
<1>2. CASE UNCHANGED caller
  BY <1>1, <1>2 DEF CallInv, NoOne, NoCall
<1>3. CASE Start \/ Stop
  BY <1>1, <1>3, OrderFacts DEF Start, Stop, CallInv, Types, ChTypes, Starting, Stopping
<1>4. CASE CallGoesOn
  <2>1. caller.at \notin {"none", "lost"}
    BY <1>4 DEF CallGoesOn, GetBuf, RequestBuf, QueueCounts, QueueIoctl, Launch, StreamOn,
                StreamOff, Synced, Join, UnregBuf, PutBuf
  <2>2. /\ caller \in [op : {"start", "undo", "stop"}, at : Starting \cup Stopping,
                       i : 1 .. Len(setup.order)]
        /\ caller.at \in (IF caller.op = "start" THEN Starting ELSE Stopping)
        /\ Len(setup.order) \in Nat \ {0}
    BY <2>1, CalledIs
  <2>3. CASE GetBuf \/ RequestBuf
    BY <1>1, <2>2, <2>3 DEF GetBuf, RequestBuf, Go, GiveUp, CallInv, Starting, Stopping
  <2>4. CASE QueueCounts \/ QueueIoctl
    BY <1>1, <2>2, <2>4 DEF QueueCounts, QueueIoctl, Go, GiveUp, CallInv, Starting, Stopping
  <2>9. ASSUME NEW at, at \in IF caller.op = "start" THEN Starting ELSE Stopping,
               \/ caller' = NoCall
               \/ /\ caller.i < Len(setup.order)
                  /\ caller' = [op |-> caller.op, at |-> at, i |-> caller.i + 1]
        PROVE  CallInv'
    <3>1. CASE caller' = NoCall
      BY <3>1 DEF CallInv, NoOne
    <3>2. CASE caller' # NoCall
      <4>1. caller.i + 1 \in 1 .. Len(setup.order)
        BY <2>2, <2>9, <3>2
      <4>2. caller'.op = caller.op /\ caller'.at = at /\ caller'.i = caller.i + 1
        BY <2>9, <3>2
      <4>3. caller' \in [op : {"start", "undo", "stop"}, at : Starting \cup Stopping,
                         i : 1 .. Len(setup.order)]
        BY <2>2, <2>9, <3>2, <4>1
      <4> QED
        BY <1>1, <2>9, <4>2, <4>3 DEF CallInv
    <3> QED
      BY <3>1, <3>2
  <2>5. CASE Launch
    BY <1>1, <2>2, <2>5 DEF Launch, Go, CallInv, Starting, Stopping
  <2>8. CASE StreamOn
    <3>1. caller.op = "start"
      BY <2>2, <2>8 DEF StreamOn, Stopping
    <3>2. CASE NextStream("get")
      <4>1. "get" \in Starting
        BY DEF Starting
      <4>2. \/ caller' = NoCall
            \/ caller.i < Len(setup.order) /\ caller' = [op |-> caller.op, at |-> "get", i |-> caller.i + 1]
        BY <2>2, <3>2 DEF NextStream
      <4> QED
        <5>1. "get" \in IF caller.op = "start" THEN Starting ELSE Stopping
          BY <3>1, <4>1
        <5> QED
          BY <1>1, <2>9, <4>2, <5>1
    <3>3. CASE Go("wait")
      BY <1>1, <2>2, <3>1, <3>3 DEF Go, CallInv, Starting
    <3> QED
      BY <2>8, <3>2, <3>3 DEF StreamOn
  <2>6. CASE StreamOff \/ Synced \/ Join
    BY <1>1, <2>2, <2>6 DEF StreamOff, Synced, Join, Go, GiveUp, CallInv, Starting, Stopping, NoOne
  <2>7. CASE UnregBuf \/ PutBuf
    <3>1. caller.op # "start"
      BY <2>2, <2>7 DEF UnregBuf, PutBuf, Starting
    <3>2. CASE UnregBuf
      <4>1. CASE NextStream("off")
        <5>1. "off" \in Stopping
          BY DEF Stopping
        <5>2. \/ caller' = NoCall
              \/ caller.i < Len(setup.order) /\ caller' = [op |-> caller.op, at |-> "off", i |-> caller.i + 1]
          BY <2>2, <4>1 DEF NextStream
        <5> QED
          BY <1>1, <2>2, <2>9, <3>1, <5>1, <5>2
      <4>2. CASE Go("put") \/ caller' = [caller EXCEPT !.at = "put", !.i = 1]
        <5>1. PICK i \in 1 .. Len(setup.order) : caller' = [caller EXCEPT !.at = "put", !.i = i]
          <6>1. 1 \in 1 .. Len(setup.order) /\ caller.i \in 1 .. Len(setup.order)
            BY <2>2
          <6>2. Go("put") => caller' = [caller EXCEPT !.at = "put", !.i = caller.i]
            BY <2>2 DEF Go
          <6> QED
            BY <4>2, <6>1, <6>2
        <5>2. "put" \in Stopping
          BY DEF Stopping
        <5> QED
          BY <1>1, <2>2, <3>1, <5>1, <5>2 DEF CallInv
      <4> QED
        BY <3>2, <4>1, <4>2 DEF UnregBuf
    <3>3. CASE PutBuf
      <4>1. "off" \in Stopping /\ "put" \in Stopping
        BY DEF Stopping
      <4> DEFINE at == IF caller.op = "undo" THEN "off" ELSE "put"
      <4>2. at \in Stopping
        BY <4>1
      <4>3. \/ caller' = NoCall
            \/ caller.i < Len(setup.order) /\ caller' = [op |-> caller.op, at |-> at, i |-> caller.i + 1]
        BY <2>2, <3>3 DEF PutBuf, NextStream
      <4> HIDE DEF at
      <4> QED
        BY <1>1, <2>2, <2>9, <3>1, <4>2, <4>3
    <3> QED
      BY <2>7, <3>2, <3>3
  <2> QED
    BY <1>4, <2>3, <2>4, <2>5, <2>6, <2>7, <2>8 DEF CallGoesOn
<1> QED
  BY <1>2, <1>3, <1>4
  DEF Next, PollThread, KernelFills, Dispatch, QBuf, Finish, PollCommand, PollReturns,
      PollLoopEnds, DataNotify, ReadMsmFrame, CountReferences, NotifyChannel, NotifyThread,
      BufDone, QBufCounts, QBufIoctl, chVars

\* What the caller is about to queue is a buffer of its stream.
LEMMA NextBufIs == ToQueue # {} => NextBuf \in ToQueue
BY DEF NextBuf

\* What a step does to the kernel's side.
LEMMA KernelTypes ==
  ASSUME Places, Next
  PROVE  kernel' \in [Streams -> KernelSide]
<1>1. Types /\ CallInv /\ KernelInv /\ PollInv /\ kernel \in [Streams -> KernelSide]
  BY DEF Places, Types
<1>2. CASE UNCHANGED kernel
  BY <1>1, <1>2
<1>3. CASE CallGoesOn
  <2>1. caller.at \notin {"none", "lost"}
    BY <1>3 DEF CallGoesOn, GetBuf, RequestBuf, QueueCounts, QueueIoctl, Launch, StreamOn,
                StreamOff, Synced, Join, UnregBuf, PutBuf
  <2>2. Current \in Streams /\ setup.buffers[Current] \subseteq Buffers
    BY <1>1, <2>1, CalledIs
  <2>3. kernel[Current] \in KernelSide
    BY <1>1, <2>2
  <2>4. [Quiet EXCEPT !.requested = TRUE] \in KernelSide /\ Quiet \in KernelSide
    BY DEF Quiet, KernelSide
  <2>5. CASE RequestBuf
    BY <1>1, <1>2, <2>2, <2>4, <2>5 DEF RequestBuf
  <2>6. CASE QueueIoctl
    <3>1. NextBuf \in Buffers
      BY <1>1, <2>2, <2>6, NextBufIs DEF KernelInv, QueueIoctl, ToQueue
    <3>2. [kernel[Current] EXCEPT !.queued = @ \cup {NextBuf}] \in KernelSide
      BY <2>3, <3>1 DEF KernelSide
    <3>3. CASE kernel' = [kernel EXCEPT ![Current].queued = @ \cup {NextBuf}]
      <4>1. kernel' = [kernel EXCEPT ![Current] = [kernel[Current] EXCEPT !.queued = @ \cup {NextBuf}]]
        BY <3>3
      <4> QED
        BY <1>1, <2>2, <3>2, <4>1
    <3> QED
      BY <1>2, <2>6, <3>3 DEF QueueIoctl, NextBuf
  <2>7. CASE StreamOn
    <3>1. [kernel[Current] EXCEPT !.streaming = TRUE] \in KernelSide
      BY <2>3 DEF KernelSide
    <3>2. CASE kernel' = [kernel EXCEPT ![Current].streaming = TRUE]
      <4>1. kernel' = [kernel EXCEPT ![Current] = [kernel[Current] EXCEPT !.streaming = TRUE]]
        BY <3>2
      <4> QED
        BY <1>1, <2>2, <3>1, <4>1
    <3> QED
      BY <1>2, <2>7, <3>2 DEF StreamOn
  <2>8. CASE Synced
    BY <1>1, <2>2, <2>4, <2>8 DEF Synced
  <2>9. CASE UnregBuf
    BY <1>1, <2>2, <2>4, <2>9 DEF UnregBuf
  <2> QED
    BY <1>2, <1>3, <2>5, <2>6, <2>7, <2>8, <2>9
    DEF CallGoesOn, GetBuf, QueueCounts, Launch, StreamOff, Join, PutBuf
<1>4. CASE DataNotify
  <2>1. PICK s \in poll.ready :
          \/ \E b \in kernel[s].filled : kernel' = [kernel EXCEPT ![s].filled = @ \ {b}]
          \/ UNCHANGED kernel
    BY <1>4 DEF DataNotify
  <2>2. s \in Streams /\ kernel[s] \in KernelSide
    BY <1>1 DEF Types, PollTypes
  <2>3. ASSUME NEW b \in kernel[s].filled, kernel' = [kernel EXCEPT ![s].filled = @ \ {b}]
        PROVE  kernel' \in [Streams -> KernelSide]
    <3>1. [kernel[s] EXCEPT !.filled = @ \ {b}] \in KernelSide
      BY <2>2 DEF KernelSide
    <3>2. kernel' = [kernel EXCEPT ![s] = [kernel[s] EXCEPT !.filled = @ \ {b}]]
      BY <2>3
    <3> QED
      BY <1>1, <2>2, <3>1, <3>2
  <2> QED
    BY <1>2, <2>1, <2>3
<1>5. ASSUME NEW s \in Streams, KernelFills(s)
      PROVE  kernel' \in [Streams -> KernelSide]
  <2>1. PICK b \in kernel[s].queued :
          kernel' = [kernel EXCEPT ![s].queued = @ \ {b}, ![s].filled = @ \cup {b}]
    BY <1>5 DEF KernelFills
  <2>2. [kernel[s] EXCEPT !.queued = @ \ {b}, !.filled = @ \cup {b}] \in KernelSide
    BY <1>1, <2>1 DEF KernelSide
  <2>3. kernel' = [kernel EXCEPT ![s] = [kernel[s] EXCEPT !.queued = @ \ {b}, !.filled = @ \cup {b}]]
    BY <1>1, <2>1
  <2> QED
    BY <1>1, <2>2, <2>3
<1>6. ASSUME NEW p \in Pairs, NEW u \in Users, QBufIoctl(p, u)
      PROVE  kernel' \in [Streams -> KernelSide]
  <2>1. p[1] \in Streams /\ p[2] \in Buffers
    BY PairFacts
  <2>2. [kernel[p[1]] EXCEPT !.queued = @ \cup {p[2]}] \in KernelSide
    BY <1>1, <2>1 DEF KernelSide
  <2>3. CASE kernel' = [kernel EXCEPT ![p[1]].queued = @ \cup {p[2]}]
    <3>1. kernel' = [kernel EXCEPT ![p[1]] = [kernel[p[1]] EXCEPT !.queued = @ \cup {p[2]}]]
      BY <2>3
    <3> QED
      BY <1>1, <2>1, <2>2, <3>1
  <2> QED
    BY <1>2, <1>6, <2>3 DEF QBufIoctl
<1> QED
  BY <1>2, <1>3, <1>4, <1>5, <1>6
  DEF Next, Start, Stop, PollThread, Dispatch, QBuf, Finish, PollCommand, PollReturns,
      PollLoopEnds, ReadMsmFrame, CountReferences, NotifyChannel, NotifyThread, BufDone,
      QBufCounts

\* Two users' counts, as bytes.
LEMMA Bytes ==
  ASSUME NEW n \in 0 .. 255, NEW m \in 0 .. 255
  PROVE  (n + m) % 256 \in 0 .. 255
         /\ (n + m) % 256 = IF n + m > 255 THEN n + m - 256 ELSE n + m
<1>1. CASE n + m <= 255
  <2>1. n + m \in 0 .. 255
    BY <1>1
  <2>2. \A k \in 0 .. 255 : k % 256 = k
    OBVIOUS
  <2> QED
    BY <1>1, <2>1, <2>2
<1>2. CASE n + m > 255
  <2>1. n + m - 256 \in 0 .. 255
    BY <1>2
  <2>2. \A k \in 0 .. 255 : (k + 256) % 256 = k
    OBVIOUS
  <2>3. (n + m) % 256 = n + m - 256
    <3>1. n + m = (n + m - 256) + 256
      OBVIOUS
    <3> QED
      BY <2>1, <2>2, <3>1
  <2> QED
    BY <1>2, <2>1, <2>3
<1> QED
  BY <1>1, <1>2

\* Adding a byte to one buffer's count leaves every count a byte.
LEMMA RefcntBytes ==
  ASSUME NEW p \in Pairs, NEW m \in 0 .. 255, refcnt \in [Pairs -> 0 .. 255],
         refcnt' = [refcnt EXCEPT ![p] = (refcnt[p] + m) % 256]
  PROVE  refcnt' \in [Pairs -> 0 .. 255]
<1>1. refcnt[p] \in 0 .. 255
  OBVIOUS
<1>2. (refcnt[p] + m) % 256 \in 0 .. 255
  BY <1>1, Bytes
<1> QED
  BY <1>2

\* Every step keeps the types.
LEMMA TypesStep ==
  ASSUME Places, Next
  PROVE  Types' /\ setup' = setup
<1>1. Types /\ CallInv /\ KernelInv /\ PollInv /\ setup' = setup
  BY CallStep DEF Places
<1>2. kernel' \in [Streams -> KernelSide]
  BY KernelTypes
<1>3. SUFFICES ChTypes' /\ BufTypes' /\ EntryTypes' /\ PollTypes'
  BY <1>1, <1>2 DEF Types
<1>10. UNCHANGED <<state, thread>> /\ (UNCHANGED starts \/ Start) => ChTypes'
  BY <1>1, Subscribers DEF Types, ChTypes, Start
<1>11. UNCHANGED <<count, refcnt, users, done>> => BufTypes'
  BY <1>1 DEF Types, BufTypes
<1>12. UNCHANGED <<poll_entries, pipe, synced, poll_fds>> => EntryTypes'
  BY <1>1 DEF Types, EntryTypes
<1>13. UNCHANGED poll => PollTypes'
  BY <1>1 DEF Types, PollTypes
<1>4. CASE Start \/ Stop
  BY <1>4, <1>10, <1>11, <1>12, <1>13 DEF Start, Stop, bufVars, pollVars
<1>5. CASE CallGoesOn
  <2>1. caller.at \notin {"none", "lost"}
    BY <1>5 DEF CallGoesOn, GetBuf, RequestBuf, QueueCounts, QueueIoctl, Launch, StreamOn,
                StreamOff, Synced, Join, UnregBuf, PutBuf
  <2>2. Current \in Streams /\ setup.buffers[Current] \subseteq Buffers
    BY <1>1, <2>1, CalledIs
  <2>3. CASE GetBuf
    <3>1. ChTypes'
      BY <1>1, <2>2, <2>3 DEF GetBuf, Types, ChTypes, bufVars
    <3> QED
      BY <1>11, <1>12, <1>13, <2>3, <3>1 DEF GetBuf, bufVars, pollVars
  <2>4. CASE RequestBuf
    <3>1. BufTypes'
      <4>1. refcnt' \in [Pairs -> 0 .. 255]
        BY <1>1, <2>4 DEF RequestBuf, Types, BufTypes
      <4>2. users' \in [Pairs -> SUBSET Users]
        BY <1>1, <2>4 DEF RequestBuf, Types, BufTypes, Users
      <4>3. count' \in [Streams -> Int]
        BY <1>1, <2>2, <2>4 DEF RequestBuf, Types, BufTypes
      <4> QED
        BY <1>1, <2>4, <4>1, <4>2, <4>3 DEF RequestBuf, Types, BufTypes
    <3> QED
      BY <1>10, <1>12, <1>13, <2>4, <3>1 DEF RequestBuf, pollVars
  <2>5. CASE QueueCounts
    <3>1. BufTypes' /\ EntryTypes'
      BY <1>1, <2>2, <2>5, Counters DEF QueueCounts, Types, BufTypes, EntryTypes
    <3> QED
      BY <1>10, <1>13, <2>5, <3>1 DEF QueueCounts
  <2>6. CASE QueueIoctl
    <3>1. CASE /\ refcnt' = [refcnt EXCEPT ![<<Current, NextBuf>>] = 0]
               /\ UNCHANGED <<count, poll_entries, pipe>>
      <4>1. refcnt' \in [Pairs -> 0 .. 255]
        <5>1. refcnt \in [Pairs -> 0 .. 255] /\ 0 \in 0 .. 255
          BY <1>1 DEF Types, BufTypes
        <5> QED
          BY <3>1, <5>1
      <4>2. BufTypes'
        BY <1>1, <2>6, <3>1, <4>1 DEF QueueIoctl, Types, BufTypes
      <4> QED
        BY <1>10, <1>12, <1>13, <2>6, <3>1, <4>2 DEF QueueIoctl
    <3>2. CASE CountDown(Current) /\ UNCHANGED <<kernel, refcnt>>
      <4>1. BufTypes' /\ EntryTypes'
        BY <1>1, <2>2, <2>6, <3>2, Counters DEF QueueIoctl, Types, BufTypes, EntryTypes
      <4> QED
        BY <1>10, <1>13, <2>6, <4>1 DEF QueueIoctl
    <3> QED
      BY <2>6, <3>1, <3>2 DEF QueueIoctl, NextBuf
  <2>7. CASE Launch
    <3>1. ChTypes'
      BY <1>1, <2>2, <2>7 DEF Launch, Types, ChTypes
    <3> QED
      BY <1>11, <1>12, <1>13, <2>7, <3>1 DEF Launch, pollVars
  <2>8. CASE StreamOn
    <3>1. EntryTypes'
      BY <1>1, <1>12, <2>2, <2>8, Deleting DEF StreamOn, Types, EntryTypes
    <3> QED
      BY <1>10, <1>11, <1>13, <2>8, <3>1 DEF StreamOn, bufVars
  <2>9. CASE StreamOff
    <3>1. EntryTypes'
      BY <1>1, <1>12, <2>2, <2>9, Deleting DEF StreamOff, Types, EntryTypes
    <3> QED
      BY <1>10, <1>11, <1>13, <2>9, <3>1 DEF StreamOff, bufVars
  <2>10. CASE Synced
    BY <1>10, <1>11, <1>12, <1>13, <2>10 DEF Synced, bufVars, pollVars
  <2>11. CASE Join
    <3>1. ChTypes'
      BY <1>1, <2>2, <2>11 DEF Join, Types, ChTypes
    <3> QED
      BY <1>11, <1>12, <1>13, <2>11, <3>1 DEF Join, pollVars
  <2>12. CASE UnregBuf
    <3>1. ChTypes' /\ BufTypes'
      <4>1. refcnt' \in [Pairs -> 0 .. 255]
        <5>1. refcnt \in [Pairs -> 0 .. 255] /\ 0 \in 0 .. 255
          BY <1>1 DEF Types, BufTypes
        <5>2. refcnt' = refcnt \/ refcnt' = [p \in Pairs |-> IF p[1] = Current THEN 0 ELSE refcnt[p]]
          BY <2>12 DEF UnregBuf
        <5> QED
          BY <5>1, <5>2
      <4> QED
        BY <1>1, <2>2, <2>12, <4>1 DEF UnregBuf, Types, ChTypes, BufTypes
    <3> QED
      BY <1>12, <1>13, <2>12, <3>1 DEF UnregBuf, pollVars
  <2>13. CASE PutBuf
    <3>1. ChTypes' /\ BufTypes'
      <4>1. users' \in [Pairs -> SUBSET Users]
        BY <1>1, <2>13 DEF PutBuf, Types, BufTypes
      <4> QED
        BY <1>1, <2>2, <2>13, <4>1 DEF PutBuf, Types, ChTypes, BufTypes
    <3> QED
      BY <1>12, <1>13, <2>13, <3>1 DEF PutBuf, pollVars
  <2> QED
    BY <1>5, <2>3, <2>4, <2>5, <2>6, <2>7, <2>8, <2>9, <2>10, <2>11, <2>12, <2>13 DEF CallGoesOn
<1>6. CASE PollThread
  <2>1. CASE PollCommand
    <3>1. EntryTypes'
      BY <1>1, <2>1 DEF PollCommand, Types, EntryTypes
    <3> QED
      BY <1>10, <1>11, <1>13, <2>1, <3>1 DEF PollCommand, bufVars, chVars
  <2>2. CASE PollReturns \/ PollLoopEnds
    <3>1. PollTypes'
      <4>1. Ready \subseteq Streams
        BY <1>1 DEF Types, EntryTypes, Ready
      <4>2. CASE PollReturns
        BY <1>1, <4>1, <4>2 DEF PollReturns, Types, PollTypes
      <4>3. CASE PollLoopEnds
        BY <4>3 DEF PollLoopEnds, PollTypes, Polling
      <4> QED
        BY <2>2, <4>2, <4>3
    <3> QED
      BY <1>10, <1>11, <1>12, <2>2, <3>1 DEF PollReturns, PollLoopEnds, bufVars, chVars
  <2>3. CASE DataNotify
    <3>1. PollTypes'
      <4>1. PICK s \in poll.ready :
              \/ \E b \in kernel[s].filled :
                   poll' = [at |-> "read", ready |-> poll.ready \ {s}, buf |-> <<s, b>>]
              \/ poll' = [poll EXCEPT !.ready = @ \ {s}]
        BY <2>3 DEF DataNotify
      <4>2. s \in Streams /\ kernel[s].filled \subseteq Buffers
        BY <1>1 DEF Types, PollTypes, KernelSide
      <4>3. \A b \in kernel[s].filled : <<s, b>> \in Pairs
        BY <4>2 DEF Pairs
      <4> QED
        BY <1>1, <4>1, <4>2, <4>3 DEF Types, PollTypes
    <3> QED
      BY <1>10, <1>11, <1>12, <2>3, <3>1 DEF DataNotify, bufVars, chVars
  <2>4. poll.buf # << >> => poll.buf \in Pairs /\ poll.buf[1] \in Streams
    BY <1>1, PairFacts DEF Types, PollTypes
  <2>5. CASE ReadMsmFrame
    <3>1. poll.buf[1] \in Streams
      BY <1>1, <2>4, <2>5 DEF ReadMsmFrame, PollInv
    <3>2. BufTypes' /\ EntryTypes'
      BY <1>1, <2>5, <3>1, Counters DEF ReadMsmFrame, Types, BufTypes, EntryTypes
    <3>3. PollTypes'
      BY <1>1, <2>5 DEF ReadMsmFrame, Types, PollTypes
    <3> QED
      BY <1>10, <2>5, <3>2, <3>3 DEF ReadMsmFrame, chVars
  <2>6. CASE CountReferences
    <3>1. Refs(poll.buf[1]) \in 0 .. 255
      BY DEF Refs
    <3>2. /\ poll.buf \in Pairs /\ refcnt \in [Pairs -> 0 .. 255]
          /\ refcnt' = [refcnt EXCEPT ![poll.buf] = (refcnt[poll.buf] + Refs(poll.buf[1])) % 256]
      BY <1>1, <2>4, <2>6 DEF CountReferences, PollInv, Types, BufTypes
    <3>3. refcnt' \in [Pairs -> 0 .. 255]
      BY <3>1, <3>2, RefcntBytes
    <3>4. PollTypes'
      BY <1>1, <2>6 DEF CountReferences, Types, PollTypes
    <3> QED
      BY <1>1, <1>10, <1>12, <2>6, <3>3, <3>4 DEF CountReferences, Types, BufTypes, chVars
  <2>7. CASE NotifyChannel \/ NotifyThread
    <3>1. BufTypes'
      BY <1>1, <2>7 DEF NotifyChannel, NotifyThread, Types, BufTypes, Users
    <3>2. PollTypes'
      BY <1>1, <2>7 DEF NotifyChannel, NotifyThread, Types, PollTypes
    <3> QED
      BY <1>10, <1>12, <2>7, <3>1, <3>2 DEF NotifyChannel, NotifyThread, chVars
  <2> QED
    BY <1>6, <2>1, <2>2, <2>3, <2>5, <2>6, <2>7 DEF PollThread
<1>7. ASSUME NEW s \in Streams, KernelFills(s)
      PROVE  ChTypes' /\ BufTypes' /\ EntryTypes' /\ PollTypes'
  BY <1>7, <1>10, <1>11, <1>12, <1>13 DEF KernelFills, bufVars, pollVars, chVars
<1>8. ASSUME NEW p \in Pairs, Dispatch(p)
      PROVE  ChTypes' /\ BufTypes' /\ EntryTypes' /\ PollTypes'
  <2>1. /\ refcnt \in [Pairs -> 0 .. 255] /\ 1 \in 0 .. 255
        /\ refcnt' = [refcnt EXCEPT ![p] = (refcnt[p] + 1) % 256]
    BY <1>1, <1>8 DEF Dispatch, Types, BufTypes
  <2>2. refcnt' \in [Pairs -> 0 .. 255]
    BY <2>1, RefcntBytes
  <2>3. users' \in [Pairs -> SUBSET Users]
    BY <1>1, <1>8 DEF Dispatch, Types, BufTypes, Users
  <2>4. BufTypes'
    BY <1>1, <1>8, <2>2, <2>3 DEF Dispatch, At, Types, BufTypes
  <2> QED
    BY <1>8, <1>10, <1>12, <1>13, <2>4 DEF Dispatch, pollVars, chVars
<1>9. ASSUME NEW p \in Pairs, NEW u \in Users, QBuf(p, u) \/ Finish(p, u)
      PROVE  ChTypes' /\ BufTypes' /\ EntryTypes' /\ PollTypes'
  <2>1. p[1] \in Streams
    BY PairFacts
  <2>2. CASE QBuf(p, u)
    <3>1. BufTypes'
      BY <1>1, <2>2 DEF QBuf, At, Drop, Types, BufTypes
    <3> QED
      BY <1>10, <1>12, <1>13, <2>2, <3>1 DEF QBuf, pollVars, chVars
  <2>3. CASE BufDone(p, u)
    <3>1. /\ refcnt \in [Pairs -> 0 .. 255] /\ 255 \in 0 .. 255
          /\ refcnt' = [refcnt EXCEPT ![p] = (refcnt[p] + 255) % 256]
      BY <1>1, <2>3 DEF BufDone, Types, BufTypes
    <3>2. refcnt' \in [Pairs -> 0 .. 255]
      BY <3>1, RefcntBytes
    <3>3. BufTypes'
      BY <1>1, <2>3, <3>2 DEF BufDone, At, Drop, Types, BufTypes
    <3> QED
      BY <1>10, <1>12, <1>13, <2>3, <3>3 DEF BufDone, pollVars, chVars
  <2>4. CASE QBufCounts(p, u)
    <3>1. BufTypes' /\ EntryTypes'
      BY <1>1, <2>1, <2>4, Counters DEF QBufCounts, At, Types, BufTypes, EntryTypes
    <3> QED
      BY <1>10, <1>13, <2>4, <3>1 DEF QBufCounts, chVars
  <2>5. CASE QBufIoctl(p, u)
    <3>1. BufTypes' /\ EntryTypes'
      <4>1. CASE UNCHANGED <<count, poll_entries, pipe>>
        BY <1>1, <1>12, <2>5, <4>1 DEF QBufIoctl, At, Types, BufTypes
      <4>2. CASE CountDown(p[1])
        BY <1>1, <2>1, <2>5, <4>2, Counters DEF QBufIoctl, At, Types, BufTypes, EntryTypes
      <4> QED
        BY <2>5, <4>1, <4>2 DEF QBufIoctl
    <3> QED
      BY <1>10, <1>13, <2>5, <3>1 DEF QBufIoctl, chVars
  <2> QED
    BY <1>9, <2>2, <2>3, <2>4, <2>5 DEF Finish
<1> QED
  BY <1>4, <1>5, <1>6, <1>7, <1>8, <1>9 DEF Next

-----------------------------------------------------------------------------
(* Where the streams, the kernel and the poll thread are.                  *)

Bufs == \A p \in Pairs : UserInv(p) /\ RefInv(p) /\ LossInv(p)

\* A call that stays at its stream has the same current stream.
LEMMA SameCurrent ==
  ASSUME setup' = setup, caller'.op = caller.op, caller'.i = caller.i
  PROVE  Current' = Current
BY DEF Current

\* A call that goes on to its next step.
LEMMA GoIs ==
  ASSUME Types, CallInv, caller.at \notin {"none", "lost"}, setup' = setup,
         NEW a, caller' = [caller EXCEPT !.at = a]
  PROVE  /\ caller'.op = caller.op /\ caller'.i = caller.i /\ caller'.at = a
         /\ Current' = Current
<1>1. caller'.op = caller.op /\ caller'.i = caller.i /\ caller'.at = a
  BY CalledIs
<1> QED
  BY <1>1, SameCurrent

\* A call that goes on to the next stream, or ends with the last.
LEMMA NextStreamIs ==
  ASSUME Types, CallInv, caller.at \notin {"none", "lost"},
         NEW a, NextStream(a)
  PROVE  \/ caller' = NoCall
         \/ /\ caller.i < Len(setup.order)
            /\ caller'.op = caller.op /\ caller'.i = caller.i + 1 /\ caller'.at = a
BY CalledIs DEF NextStream

\* The stream in the caller's hands, when it starts.
LEMMA InOrder ==
  ASSUME Types, CallInv, caller.op = "start"
  PROVE  /\ caller.i \in 1 .. Len(setup.order) /\ Len(setup.order) \in Nat
         /\ Current = setup.order[caller.i]
         /\ \A j \in 1 .. Len(setup.order) : setup.order[j] \in Streams
         /\ \A j \in 1 .. Len(setup.order) : setup.order[j] = Current => j = caller.i
<1>1. caller \notin NoOne
  BY DEF NoOne, NoCall
<1>2. caller.i \in 1 .. Len(setup.order) /\ setup \in Setups
  BY <1>1 DEF CallInv, Types, ChTypes
<1>3. Current = setup.order[caller.i]
  BY DEF Current
<1> QED
  BY <1>2, <1>3, OrderFacts

\* Every step keeps each stream's state what the call has made of it.
LEMMA StateStep ==
  ASSUME Places, Next
  PROVE  StateInv'
<1>1. /\ Types /\ CallInv /\ StateInv /\ setup' = setup /\ Called \subseteq Streams
      /\ state \in [Streams -> {"CFG", "BUFFED", "REG", "ACTIVE"}]
      /\ thread = {s \in Called : state[s] = "ACTIVE"}
  BY TypesStep, Subscribers DEF Places, StateInv, Types, ChTypes
<1>2. CASE UNCHANGED <<state, thread, caller>>
  <2>1. Current' = Current
    BY <1>1, <1>2, SameCurrent
  <2> QED
    BY <1>1, <1>2, <2>1 DEF StateInv
<1>3. CASE Start
  <2>1. caller' = [op |-> "start", at |-> "get", i |-> 1] /\ state' = state /\ thread' = thread
        /\ \A s \in Streams : state[s] = "CFG"
    BY <1>3 DEF Start, bufVars
  <2>2. \A j \in 1 .. Len(setup.order) : setup.order[j] \in Streams
    BY <1>1, OrderFacts DEF Types, ChTypes
  <2> QED
    BY <1>1, <2>1, <2>2 DEF StateInv
<1>4. CASE Stop
  BY <1>1, <1>4 DEF Stop, bufVars, StateInv
<1>5. CASE CallGoesOn
  <2>1. caller.at \notin {"none", "lost"}
    BY <1>5 DEF CallGoesOn, GetBuf, RequestBuf, QueueCounts, QueueIoctl, Launch, StreamOn,
                StreamOff, Synced, Join, UnregBuf, PutBuf
  <2>2. /\ caller \in [op : {"start", "undo", "stop"}, at : Starting \cup Stopping,
                       i : 1 .. Len(setup.order)]
        /\ caller.at \in (IF caller.op = "start" THEN Starting ELSE Stopping)
        /\ Current \in Streams
    BY <1>1, <2>1, CalledIs
  <2>3. ASSUME GiveUp, thread' = {s \in Called : state'[s] = "ACTIVE"} PROVE StateInv'
    BY <2>3 DEF GiveUp, StateInv
  <2>4. ASSUME NEW a, caller' = [caller EXCEPT !.at = a]
        PROVE  caller'.op = caller.op /\ caller'.i = caller.i /\ caller'.at = a /\ Current' = Current
    BY <1>1, <2>1, <2>4, GoIs
  <2>5. caller.op = "start" =>
          \A j \in 1 .. Len(setup.order) : setup.order[j] \in Streams
                                           /\ (j # caller.i => setup.order[j] # Current)
    BY <1>1, InOrder
  <2>6. CASE GetBuf
    <3>1. caller.op = "start"
      BY <2>2, <2>6 DEF GetBuf, Stopping
    <3>2. state[Current] = "CFG"
      <4>1. Current = setup.order[caller.i] /\ caller.i \in 1 .. Len(setup.order) /\ Len(setup.order) \in Nat
        BY <1>1, <3>1, InOrder
      <4> QED
        BY <1>1, <2>6, <3>1, <4>1 DEF GetBuf, StateInv
    <3>3. CASE GiveUp
      <4>1. state' = state \/ state' = [state EXCEPT ![Current] = "BUFFED"]
        BY <2>6 DEF GetBuf
      <4>2. thread' = {s \in Called : state'[s] = "ACTIVE"}
        BY <1>1, <2>2, <2>6, <3>2, <4>1 DEF GetBuf, bufVars
      <4> QED
        BY <2>3, <3>3, <4>2
    <3>4. CASE state' = [state EXCEPT ![Current] = "BUFFED"] /\ Go("request")
      <4>1. caller' = [caller EXCEPT !.at = "request"]
        BY <3>4 DEF Go
      <4>2. caller'.op = "start" /\ caller'.i = caller.i /\ caller'.at = "request" /\ Current' = Current
        BY <2>4, <3>1, <4>1
      <4>3. thread' = {s \in Called : state'[s] = "ACTIVE"}
        BY <1>1, <2>2, <2>6, <3>2, <3>4 DEF GetBuf, bufVars
      <4>4. \A j \in caller.i + 1 .. Len(setup.order) : state'[setup.order[j]] = state[setup.order[j]]
        BY <1>1, <2>2, <2>5, <3>1, <3>4
      <4>5. \A j \in caller.i .. Len(setup.order) : j > caller.i => state'[setup.order[j]] = "CFG"
        BY <1>1, <2>2, <3>1, <4>4 DEF StateInv
      <4> QED
        BY <1>1, <2>2, <3>4, <4>2, <4>3, <4>5 DEF StateInv
    <3> QED
      BY <2>6, <3>3, <3>4 DEF GetBuf
  <2>7. CASE RequestBuf \/ QueueCounts \/ QueueIoctl
    <3>1. state' = state /\ thread' = thread /\ caller.op = "start" /\ state[Current] = "BUFFED"
      BY <1>1, <2>2, <2>7 DEF RequestBuf, QueueCounts, QueueIoctl, Stopping, StateInv
    <3>2. CASE GiveUp
      BY <1>1, <2>3, <3>1, <3>2
    <3>3. CASE Go("queue") \/ Go("ioctl")
      <4>1. PICK a \in {"queue", "ioctl"} : caller' = [caller EXCEPT !.at = a]
        BY <3>3 DEF Go
      <4>2. caller'.op = "start" /\ caller'.i = caller.i /\ caller'.at = a /\ Current' = Current
        BY <2>4, <3>1, <4>1
      <4> QED
        BY <1>1, <3>1, <4>2 DEF StateInv
    <3> QED
      BY <2>7, <3>2, <3>3 DEF RequestBuf, QueueCounts, QueueIoctl
  <2>8. CASE Launch
    <3>1. caller.op = "start" /\ state' = [state EXCEPT ![Current] = "ACTIVE"]
          /\ thread' = thread \cup ({Current} \cap Called) /\ caller' = [caller EXCEPT !.at = "on"]
      BY <2>2, <2>8 DEF Launch, Stopping, Go
    <3>2. caller'.op = "start" /\ caller'.i = caller.i /\ caller'.at = "on" /\ Current' = Current
      BY <2>4, <3>1
    <3>3. thread' = {s \in Called : state'[s] = "ACTIVE"}
      BY <1>1, <2>2, <3>1
    <3>4. \A j \in caller.i + 1 .. Len(setup.order) : state'[setup.order[j]] = state[setup.order[j]]
      BY <1>1, <2>2, <2>5, <3>1
    <3>5. \A j \in caller.i .. Len(setup.order) : j > caller.i => state'[setup.order[j]] = "CFG"
      BY <1>1, <2>2, <3>1, <3>4 DEF StateInv
    <3>6. state'[Current'] = "ACTIVE"
      BY <1>1, <2>2, <3>1, <3>2
    <3> QED
      BY <1>1, <2>2, <3>2, <3>3, <3>5, <3>6 DEF StateInv
  <2>9. CASE StreamOn
    <3>1. caller.op = "start" /\ state' = state /\ thread' = thread /\ state[Current] = "ACTIVE"
      BY <1>1, <2>2, <2>9 DEF StreamOn, Stopping, bufVars, StateInv
    <3>2. CASE NextStream("get")
      <4>1. \/ caller' = NoCall
            \/ /\ caller.i < Len(setup.order)
               /\ caller'.op = caller.op /\ caller'.i = caller.i + 1 /\ caller'.at = "get"
        BY <1>1, <2>1, <3>2, NextStreamIs
      <4>2. CASE caller' = NoCall
        BY <1>1, <3>1, <4>2 DEF StateInv, NoCall
      <4>3. CASE caller' # NoCall
        <5>1. caller'.op = "start" /\ caller'.i = caller.i + 1 /\ caller'.at = "get" /\ caller.i \in Nat
          BY <2>2, <3>1, <4>1, <4>3
        <5>2. \A j \in caller'.i .. Len(setup.order) : state'[setup.order[j]] = "CFG"
          BY <1>1, <2>2, <3>1, <5>1 DEF StateInv
        <5> QED
          BY <1>1, <3>1, <5>1, <5>2 DEF StateInv
      <4> QED
        BY <4>2, <4>3
    <3>3. CASE Go("wait")
      <4>1. caller' = [caller EXCEPT !.at = "wait"]
        BY <3>3 DEF Go
      <4>2. caller'.op = "start" /\ caller'.i = caller.i /\ caller'.at = "wait" /\ Current' = Current
        BY <2>4, <3>1, <4>1
      <4> QED
        BY <1>1, <3>1, <4>2 DEF StateInv
    <3> QED
      BY <2>9, <3>2, <3>3 DEF StreamOn
  <2>10. CASE StreamOff
    <3>1. caller.op # "start" /\ state' = state /\ thread' = thread
      BY <2>2, <2>10 DEF StreamOff, Starting, bufVars
    <3>2. PICK a \in {"wait", "unreg"} :
            caller' = [caller EXCEPT !.at = a] /\ (a = "wait" <=> state[Current] = "ACTIVE")
      BY <2>10 DEF StreamOff, Go
    <3>3. caller'.op # "start" /\ caller'.at = a /\ Current' = Current
      BY <2>4, <3>1, <3>2
    <3> QED
      BY <1>1, <3>1, <3>2, <3>3 DEF StateInv
  <2>11. CASE Synced
    <3>1. state' = state /\ thread' = thread /\ state[Current] = "ACTIVE" /\ caller' = [caller EXCEPT !.at = "join"]
      BY <1>1, <2>11 DEF Synced, bufVars, StateInv, Go
    <3>2. caller'.op = caller.op /\ caller'.i = caller.i /\ caller'.at = "join" /\ Current' = Current
      BY <2>4, <3>1
    <3> QED
      BY <1>1, <2>11, <3>1, <3>2 DEF StateInv, Synced
  <2>12. CASE Join
    <3>1. thread' = thread \ {Current} /\ state' = [state EXCEPT ![Current] = "REG"]
      BY <2>12 DEF Join
    <3>2. thread' = {s \in Called : state'[s] = "ACTIVE"}
      BY <1>1, <2>2, <3>1
    <3>3. CASE GiveUp
      BY <2>3, <3>2, <3>3
    <3>4. CASE caller' = [NoCall EXCEPT !.at = "lost"]
      BY <3>2, <3>4 DEF StateInv, NoCall
    <3>5. CASE caller.op # "start" /\ Go("unreg")
      <4>1. caller' = [caller EXCEPT !.at = "unreg"]
        BY <3>5 DEF Go
      <4>2. caller'.op # "start" /\ caller'.at = "unreg" /\ Current' = Current
        BY <2>4, <3>5, <4>1
      <4>3. state'[Current] = "REG"
        BY <1>1, <2>2, <3>1
      <4> QED
        BY <3>2, <4>2, <4>3 DEF StateInv
    <3> QED
      BY <2>12, <3>3, <3>4, <3>5 DEF Join
  <2>13. CASE UnregBuf \/ PutBuf
    <3>1. caller.op # "start"
      BY <2>2, <2>13 DEF UnregBuf, PutBuf, Starting
    <3>2. thread' = {s \in Called : state'[s] = "ACTIVE"}
      <4>1. CASE UnregBuf
        BY <1>1, <2>2, <4>1 DEF UnregBuf
      <4>2. CASE PutBuf
        BY <1>1, <2>2, <4>2 DEF PutBuf
      <4> QED
        BY <2>13, <4>1, <4>2
    <3>3. \/ caller' = NoCall
          \/ caller'.op # "start" /\ caller'.at \in {"off", "put"}
      <4>1. CASE UnregBuf
        <5>1. NextStream("off") => caller' = NoCall \/ (caller'.op = caller.op /\ caller'.at = "off")
          BY <1>1, <2>1, NextStreamIs
        <5>2. \/ NextStream("off") \/ caller' = [caller EXCEPT !.at = "put"]
              \/ caller' = [caller EXCEPT !.at = "put", !.i = 1]
          BY <4>1 DEF UnregBuf, Go
        <5> QED
          BY <2>2, <3>1, <5>1, <5>2
      <4>2. CASE PutBuf
        <5>1. PICK a \in {"off", "put"} : NextStream(a)
          BY <4>2 DEF PutBuf
        <5>2. caller' = NoCall \/ (caller'.op = caller.op /\ caller'.at = a)
          BY <1>1, <2>1, <5>1, NextStreamIs
        <5> QED
          BY <3>1, <5>1, <5>2
      <4> QED
        BY <2>13, <4>1, <4>2
    <3> QED
      BY <3>2, <3>3 DEF StateInv, NoCall
  <2> QED
    BY <1>5, <2>6, <2>7, <2>8, <2>9, <2>10, <2>11, <2>12, <2>13 DEF CallGoesOn
<1> QED
  BY <1>2, <1>3, <1>4, <1>5
  DEF Next, PollThread, KernelFills, Dispatch, QBuf, Finish, PollCommand, PollReturns,
      PollLoopEnds, DataNotify, ReadMsmFrame, CountReferences, NotifyChannel, NotifyThread,
      BufDone, QBufCounts, QBufIoctl, chVars, bufVars

\* What a step that leaves the caller alone does to the kernel's side.
KernelMoves(s) ==
  /\ \A t \in Streams \ {s} : kernel'[t] = kernel[t]
  /\ kernel'[s].requested = kernel[s].requested /\ kernel'[s].streaming = kernel[s].streaming

\* The kernel fills a buffer.
LEMMA FillIs ==
  ASSUME Types, NEW s \in Streams, NEW b \in kernel[s].queued,
         kernel' = [kernel EXCEPT ![s].queued = @ \ {b}, ![s].filled = @ \cup {b}]
  PROVE  /\ KernelMoves(s)
         /\ kernel'[s].queued = kernel[s].queued \ {b}
         /\ kernel'[s].filled = kernel[s].filled \cup {b}
<1>1. kernel \in [Streams -> KernelSide] /\ kernel[s] \in KernelSide
  BY DEF Types
<1>2. kernel' = [kernel EXCEPT ![s] = [kernel[s] EXCEPT !.queued = @ \ {b}, !.filled = @ \cup {b}]]
  BY <1>1
<1>3. kernel'[s] = [kernel[s] EXCEPT !.queued = @ \ {b}, !.filled = @ \cup {b}]
      /\ \A t \in Streams \ {s} : kernel'[t] = kernel[t]
  BY <1>1, <1>2
<1> QED
  BY <1>1, <1>3 DEF KernelMoves, KernelSide

\* The poll thread takes a filled buffer.
LEMMA TakeIs ==
  ASSUME Types, NEW s \in Streams, NEW b \in kernel[s].filled,
         kernel' = [kernel EXCEPT ![s].filled = @ \ {b}]
  PROVE  /\ KernelMoves(s)
         /\ kernel'[s].queued = kernel[s].queued
         /\ kernel'[s].filled = kernel[s].filled \ {b}
<1>1. kernel \in [Streams -> KernelSide] /\ kernel[s] \in KernelSide
  BY DEF Types
<1>2. kernel' = [kernel EXCEPT ![s] = [kernel[s] EXCEPT !.filled = @ \ {b}]]
  BY <1>1
<1>3. kernel'[s] = [kernel[s] EXCEPT !.filled = @ \ {b}]
      /\ \A t \in Streams \ {s} : kernel'[t] = kernel[t]
  BY <1>1, <1>2
<1> QED
  BY <1>1, <1>3 DEF KernelMoves, KernelSide

\* A buffer is queued to the kernel.
LEMMA QueueIs ==
  ASSUME Types, NEW s \in Streams, NEW b \in Buffers,
         kernel' = [kernel EXCEPT ![s].queued = @ \cup {b}]
  PROVE  /\ KernelMoves(s)
         /\ kernel'[s].queued = kernel[s].queued \cup {b}
         /\ kernel'[s].filled = kernel[s].filled
<1>1. kernel \in [Streams -> KernelSide] /\ kernel[s] \in KernelSide
  BY DEF Types
<1>2. kernel' = [kernel EXCEPT ![s] = [kernel[s] EXCEPT !.queued = @ \cup {b}]]
  BY <1>1
<1>3. kernel'[s] = [kernel[s] EXCEPT !.queued = @ \cup {b}]
      /\ \A t \in Streams \ {s} : kernel'[t] = kernel[t]
  BY <1>1, <1>2
<1> QED
  BY <1>1, <1>3 DEF KernelMoves, KernelSide

\* The kernel starts streaming.
LEMMA OnIs ==
  ASSUME Types, NEW s \in Streams, kernel' = [kernel EXCEPT ![s].streaming = TRUE]
  PROVE  /\ \A t \in Streams \ {s} : kernel'[t] = kernel[t]
         /\ kernel'[s].requested = kernel[s].requested /\ kernel'[s].streaming = TRUE
         /\ kernel'[s].queued = kernel[s].queued /\ kernel'[s].filled = kernel[s].filled
<1>1. kernel \in [Streams -> KernelSide] /\ kernel[s] \in KernelSide
  BY DEF Types
<1>2. kernel' = [kernel EXCEPT ![s] = [kernel[s] EXCEPT !.streaming = TRUE]]
  BY <1>1
<1>3. kernel'[s] = [kernel[s] EXCEPT !.streaming = TRUE]
      /\ \A t \in Streams \ {s} : kernel'[t] = kernel[t]
  BY <1>1, <1>2
<1> QED
  BY <1>1, <1>3 DEF KernelSide

\* While a stream is being filled nobody but the caller has to do with it.
LEMMA FillingAlone ==
  ASSUME Places, Bufs, Filling, NEW s \in Streams, s = Current
  PROVE  /\ state[s] = "BUFFED" /\ ~kernel[s].streaming /\ kernel[s].filled = {}
         /\ \A p \in Pairs : p[1] = s => poll.buf # p
         /\ \A p \in Pairs, u \in Users : p[1] = s => done[<<p, u>>] = "no"
<1>1. state[s] = "BUFFED" /\ caller.at # "lost"
  BY DEF Places, StateInv, Filling
<1>2. ~kernel[s].streaming /\ kernel[s].filled = {}
  BY DEF Places, KernelInv, Filling
<1>3. \A p \in Pairs : p[1] = s => poll.buf # p
  BY <1>1, PairFacts DEF Places, PollInv
<1>4. \A p \in Pairs, u \in Users : p[1] = s => done[<<p, u>>] = "no"
  BY DEF Bufs, UserInv, Filling
<1> QED
  BY <1>1, <1>2, <1>3, <1>4

\* Every step keeps the kernel's side in line with the stream's state.
LEMMA KernelStep ==
  ASSUME Places, Bufs, Next
  PROVE  KernelInv'
<1>1. /\ Types /\ CallInv /\ StateInv /\ KernelInv /\ PollInv /\ setup' = setup /\ Types'
      /\ state \in [Streams -> {"CFG", "BUFFED", "REG", "ACTIVE"}]
      /\ kernel \in [Streams -> KernelSide]
  BY TypesStep DEF Places, Types, ChTypes
<1>2. UNCHANGED caller => Current' = Current
  BY <1>1, SameCurrent
<1>3. CASE UNCHANGED <<state, kernel, caller>>
  BY <1>1, <1>2, <1>3 DEF KernelInv, Filling, ToQueue
<1>4. ASSUME NEW s \in Streams, KernelMoves(s), UNCHANGED <<state, caller>>,
             ~(Filling /\ Current = s),
             caller.at = "on" /\ Current = s => kernel'[s].filled = {}
      PROVE  KernelInv'
  <2>1. caller.at \notin {"none", "lost"} => Current \in Streams
    BY <1>1, CalledIs
  <2>2. \A t \in Streams : kernel'[t].requested = kernel[t].requested /\ kernel'[t].streaming = kernel[t].streaming
    BY <1>4 DEF KernelMoves
  <2>3. Filling => kernel'[Current] = kernel[Current]
    BY <1>4, <2>1 DEF KernelMoves, Filling
  <2>4. caller.at = "on" => kernel'[Current].filled = {}
    <3>1. caller.at = "on" => kernel[Current].filled = {}
      BY <1>1 DEF KernelInv
    <3> QED
      BY <1>4, <2>1, <3>1 DEF KernelMoves
  <2> QED
    BY <1>1, <1>2, <1>4, <2>1, <2>2, <2>3, <2>4 DEF KernelInv, Filling, ToQueue
<1>5. CASE Start \/ Stop
  BY <1>1, <1>5 DEF Start, Stop, bufVars, KernelInv, Filling
<1>6. CASE CallGoesOn
  <2>1. caller.at \notin {"none", "lost"}
    BY <1>6 DEF CallGoesOn, GetBuf, RequestBuf, QueueCounts, QueueIoctl, Launch, StreamOn,
                StreamOff, Synced, Join, UnregBuf, PutBuf
  <2>2. /\ caller \in [op : {"start", "undo", "stop"}, at : Starting \cup Stopping,
                       i : 1 .. Len(setup.order)]
        /\ caller.at \in (IF caller.op = "start" THEN Starting ELSE Stopping)
        /\ Current \in Streams
        /\ setup.held[Current] \subseteq setup.buffers[Current]
        /\ setup.buffers[Current] \subseteq Buffers
    BY <1>1, <2>1, CalledIs
  <2>4. ASSUME NEW a, caller' = [caller EXCEPT !.at = a]
        PROVE  caller'.op = caller.op /\ caller'.i = caller.i /\ caller'.at = a /\ Current' = Current
    BY <1>1, <2>1, <2>4, GoIs
  <2>5. ASSUME \A s \in Streams : kernel'[s].streaming => state'[s] = "ACTIVE" /\ kernel'[s].requested,
               caller'.at \in {"none", "lost", "get", "request", "off", "unreg", "put"}
        PROVE  KernelInv'
    BY <2>5 DEF KernelInv, Filling
  <2>6. GiveUp => caller'.at = "off"
    BY DEF GiveUp
  <2>7. CASE GetBuf
    <3>1. caller'.at \in {"request", "off"}
      BY <2>4, <2>6, <2>7 DEF GetBuf, Go
    <3>2. kernel' = kernel /\ (state' = state \/ state' = [state EXCEPT ![Current] = "BUFFED"])
      BY <2>7 DEF GetBuf
    <3>3. state[Current] = "CFG"
      <4>1. caller.op = "start"
        BY <2>2, <2>7 DEF GetBuf, Stopping
      <4>2. Current = setup.order[caller.i] /\ caller.i \in 1 .. Len(setup.order) /\ Len(setup.order) \in Nat
        BY <1>1, <4>1, InOrder
      <4> QED
        BY <1>1, <2>7, <4>1, <4>2 DEF GetBuf, StateInv
    <3> QED
      BY <1>1, <2>2, <2>5, <3>1, <3>2, <3>3 DEF KernelInv
  <2>8. CASE RequestBuf
    <3>1. state' = state /\ state[Current] = "BUFFED"
      BY <1>1, <2>8 DEF RequestBuf, StateInv
    <3>2. CASE GiveUp /\ kernel' = kernel
      BY <1>1, <2>5, <2>6, <3>1, <3>2 DEF KernelInv
    <3>3. CASE kernel' = [kernel EXCEPT ![Current] = [Quiet EXCEPT !.requested = TRUE]] /\ Go("queue")
      <4>1. kernel'[Current] = [Quiet EXCEPT !.requested = TRUE] /\ \A t \in Streams \ {Current} : kernel'[t] = kernel[t]
        BY <1>1, <2>2, <3>3
      <4>2. /\ kernel'[Current].requested /\ ~kernel'[Current].streaming
            /\ kernel'[Current].filled = {} /\ kernel'[Current].queued = {}
        BY <4>1 DEF Quiet
      <4>3. caller'.at = "queue" /\ Current' = Current
        BY <2>4, <3>3 DEF Go
      <4> QED
        BY <1>1, <3>1, <4>1, <4>2, <4>3 DEF KernelInv, Filling
    <3> QED
      BY <2>8, <3>2, <3>3 DEF RequestBuf
  <2>9. CASE QueueCounts
    <3>1. state' = state /\ kernel' = kernel /\ ToQueue # {} /\ caller.at = "queue"
      BY <2>9 DEF QueueCounts
    <3>2. CASE GiveUp
      BY <1>1, <2>5, <2>6, <3>1, <3>2 DEF KernelInv
    <3>3. CASE Go("ioctl")
      <4>1. caller'.at = "ioctl" /\ Current' = Current
        BY <2>4, <3>3 DEF Go
      <4>2. ToQueue' = ToQueue
        BY <1>1, <3>1, <4>1 DEF ToQueue
      <4> QED
        BY <1>1, <3>1, <4>1, <4>2 DEF KernelInv, Filling
    <3> QED
      BY <2>9, <3>2, <3>3 DEF QueueCounts
  <2>10. CASE QueueIoctl
    <3>1. ToQueue # {} /\ NextBuf \in ToQueue /\ state' = state /\ Filling
      BY <1>1, <2>10, NextBufIs DEF KernelInv, QueueIoctl, Filling
    <3>2. NextBuf \in setup.buffers[Current] \ setup.held[Current]
      BY <3>1 DEF ToQueue
    <3>3. CASE GiveUp /\ UNCHANGED kernel
      BY <1>1, <2>5, <2>6, <3>1, <3>3 DEF KernelInv
    <3>4. CASE kernel' = [kernel EXCEPT ![Current].queued = @ \cup {NextBuf}] /\ Go("queue")
      <4>1. NextBuf \in Buffers
        BY <2>2, <3>2
      <4>2. KernelMoves(Current) /\ kernel'[Current].queued = kernel[Current].queued \cup {NextBuf}
            /\ kernel'[Current].filled = kernel[Current].filled
        BY <1>1, <2>2, <3>4, <4>1, QueueIs
      <4>3. caller'.at = "queue" /\ Current' = Current
        BY <2>4, <3>4 DEF Go
      <4> QED
        BY <1>1, <2>2, <2>10, <3>1, <3>2, <4>2, <4>3 DEF KernelInv, KernelMoves, Filling
    <3> QED
      BY <2>10, <3>3, <3>4 DEF QueueIoctl, NextBuf
  <2>11. CASE Launch
    <3>1. state' = [state EXCEPT ![Current] = "ACTIVE"] /\ kernel' = kernel
          /\ caller' = [caller EXCEPT !.at = "on"] /\ caller.at = "queue"
      BY <2>11 DEF Launch, Go
    <3>2. caller'.at = "on" /\ Current' = Current /\ caller'.op = caller.op
      BY <2>4, <3>1
    <3>3. \A s \in Streams : kernel'[s].streaming => state'[s] = "ACTIVE" /\ kernel'[s].requested
      BY <1>1, <2>2, <3>1 DEF KernelInv
    <3> QED
      BY <1>1, <3>1, <3>2, <3>3 DEF KernelInv, Filling
  <2>12. CASE StreamOn
    <3>1. state' = state /\ caller.at = "on" /\ state[Current] = "ACTIVE"
      BY <1>1, <2>12 DEF StreamOn, StateInv
    <3>2. CASE kernel' = [kernel EXCEPT ![Current].streaming = TRUE] /\ NextStream("get")
      <4>1. caller'.at \in {"none", "get"}
        BY <1>1, <2>1, <3>2, NextStreamIs DEF NoCall
      <4>2. \A s \in Streams : kernel'[s].streaming => state'[s] = "ACTIVE" /\ kernel'[s].requested
        <5>1. /\ \A t \in Streams \ {Current} : kernel'[t] = kernel[t]
              /\ kernel'[Current].requested = kernel[Current].requested
          BY <1>1, <2>2, <3>2, OnIs
        <5> QED
          BY <1>1, <2>2, <3>1, <5>1 DEF KernelInv
      <4> QED
        BY <2>5, <4>1, <4>2
    <3>3. CASE Go("wait") /\ UNCHANGED kernel
      <4>1. caller'.at = "wait" /\ Current' = Current /\ caller'.op = caller.op
        BY <2>4, <3>3 DEF Go
      <4> QED
        BY <1>1, <3>1, <3>3, <4>1 DEF KernelInv, Filling
    <3> QED
      BY <2>12, <3>2, <3>3 DEF StreamOn
  <2>13. CASE StreamOff
    <3>1. state' = state /\ kernel' = kernel /\ caller.op # "start"
      BY <2>2, <2>13 DEF StreamOff, Starting
    <3>2. PICK a \in {"wait", "unreg"} : caller' = [caller EXCEPT !.at = a]
      BY <2>13 DEF StreamOff, Go
    <3>3. caller'.at = a /\ Current' = Current /\ caller'.op = caller.op
      BY <2>4, <3>2
    <3> QED
      BY <1>1, <3>1, <3>2, <3>3 DEF KernelInv, Filling
  <2>14. CASE Synced
    <3>1. state' = state /\ caller.at = "wait" /\ caller' = [caller EXCEPT !.at = "join"]
          /\ kernel' = IF caller.op = "start" THEN kernel
                       ELSE [kernel EXCEPT ![Current] = [Quiet EXCEPT !.requested = TRUE]]
      BY <2>14 DEF Synced, Go
    <3>2. caller'.at = "join" /\ Current' = Current /\ caller'.op = caller.op
      BY <2>4, <3>1
    <3>3. CASE caller.op = "start"
      BY <1>1, <3>1, <3>2, <3>3 DEF KernelInv, Filling
    <3>4. CASE caller.op # "start"
      <4>1. kernel'[Current] = [Quiet EXCEPT !.requested = TRUE] /\ \A t \in Streams \ {Current} : kernel'[t] = kernel[t]
        BY <1>1, <2>2, <3>1, <3>4
      <4>2. ~kernel'[Current].streaming
        BY <4>1 DEF Quiet
      <4> QED
        BY <1>1, <3>1, <3>2, <4>1, <4>2 DEF KernelInv, Filling
    <3> QED
      BY <3>3, <3>4
  <2>15. CASE Join
    <3>1. state' = [state EXCEPT ![Current] = "REG"] /\ kernel' = kernel /\ caller.at = "join"
      BY <2>15 DEF Join
    <3>2. caller'.at \in {"lost", "off", "unreg"}
      BY <2>4, <2>6, <2>15 DEF Join, Go, NoCall
    <3>3. \A s \in Streams : kernel'[s].streaming => state'[s] = "ACTIVE" /\ kernel'[s].requested
      BY <1>1, <2>2, <3>1 DEF KernelInv
    <3> QED
      BY <2>5, <3>2, <3>3
  <2>16. CASE UnregBuf \/ PutBuf
    <3>1. \A s \in Streams : kernel'[s].streaming => state'[s] = "ACTIVE" /\ kernel'[s].requested
      <4>1. CASE UnregBuf
        <5>1. state[Current] # "ACTIVE"
          BY <1>1, <4>1 DEF UnregBuf, StateInv
        <5>2. \A t \in Streams \ {Current} : kernel'[t] = kernel[t] /\ state'[t] = state[t]
          BY <1>1, <2>2, <4>1 DEF UnregBuf
        <5>4. \/ kernel' = kernel /\ state' = state
              \/ kernel' = [kernel EXCEPT ![Current] = Quiet]
          BY <4>1 DEF UnregBuf
        <5>3. \/ kernel'[Current] = Quiet
              \/ kernel'[Current] = kernel[Current] /\ state'[Current] = state[Current]
          BY <1>1, <2>2, <5>4
        <5> QED
          BY <1>1, <5>1, <5>2, <5>3 DEF KernelInv, Quiet
      <4>2. CASE PutBuf
        BY <1>1, <2>2, <4>2 DEF PutBuf, KernelInv
      <4> QED
        BY <2>16, <4>1, <4>2
    <3>2. caller'.at \in {"none", "off", "put"}
      <4>1. CASE UnregBuf
        <5>1. NextStream("off") => caller' = NoCall \/ caller'.at = "off"
          BY <1>1, <2>1, NextStreamIs
        <5>2. \/ NextStream("off") \/ caller' = [caller EXCEPT !.at = "put"]
              \/ caller' = [caller EXCEPT !.at = "put", !.i = 1]
          BY <4>1 DEF UnregBuf, Go
        <5>3. caller' = [caller EXCEPT !.at = "put"] => caller'.at = "put"
          BY <2>4
        <5>4. caller' = [caller EXCEPT !.at = "put", !.i = 1] => caller'.at = "put"
          BY <2>2
        <5> QED
          BY <5>1, <5>2, <5>3, <5>4 DEF NoCall
      <4>2. CASE PutBuf
        <5>1. PICK a \in {"off", "put"} : NextStream(a)
          BY <4>2 DEF PutBuf
        <5>2. caller' = NoCall \/ caller'.at = a
          BY <1>1, <2>1, <5>1, NextStreamIs
        <5> QED
          BY <5>1, <5>2 DEF NoCall
      <4> QED
        BY <2>16, <4>1, <4>2
    <3> QED
      BY <2>5, <3>1, <3>2
  <2> QED
    BY <1>6, <2>7, <2>8, <2>9, <2>10, <2>11, <2>12, <2>13, <2>14, <2>15, <2>16 DEF CallGoesOn
<1>7. CASE DataNotify
  <2>1. PICK s \in poll.ready :
          \/ /\ state[s] = "ACTIVE"
             /\ \E b \in kernel[s].filled : kernel' = [kernel EXCEPT ![s].filled = @ \ {b}]
          \/ UNCHANGED kernel
    BY <1>7 DEF DataNotify
  <2>2. s \in Streams /\ UNCHANGED <<state, caller>>
    BY <1>1, <1>7 DEF Types, PollTypes, DataNotify, chVars
  <2>3. ASSUME NEW b \in kernel[s].filled, kernel' = [kernel EXCEPT ![s].filled = @ \ {b}]
        PROVE  KernelInv'
    <3>1. KernelMoves(s)
      BY <1>1, <2>2, <2>3, TakeIs
    <3>2. ~(Filling /\ Current = s) /\ ~(caller.at = "on" /\ Current = s)
      BY <1>1, <2>3 DEF KernelInv, Filling
    <3> QED
      BY <1>4, <2>2, <3>1, <3>2
  <2> QED
    BY <1>3, <2>1, <2>2, <2>3
<1>8. ASSUME NEW s \in Streams, KernelFills(s)
      PROVE  KernelInv'
  <2>1. PICK b \in kernel[s].queued :
          kernel' = [kernel EXCEPT ![s].queued = @ \ {b}, ![s].filled = @ \cup {b}]
    BY <1>8 DEF KernelFills
  <2>2. KernelMoves(s) /\ UNCHANGED <<state, caller>> /\ kernel[s].streaming
    BY <1>1, <1>8, <2>1, FillIs DEF KernelFills, chVars
  <2>3. ~(Filling /\ Current = s) /\ ~(caller.at = "on" /\ Current = s)
    BY <1>1, <2>2 DEF KernelInv, Filling
  <2> QED
    BY <1>4, <2>2, <2>3
<1>9. ASSUME NEW p \in Pairs, NEW u \in Users, QBufIoctl(p, u)
      PROVE  KernelInv'
  <2>1. p[1] \in Streams /\ p[2] \in Buffers /\ UNCHANGED <<state, caller>>
    BY <1>9, PairFacts DEF QBufIoctl, chVars
  <2>2. CASE kernel' = [kernel EXCEPT ![p[1]].queued = @ \cup {p[2]}]
    <3>1. KernelMoves(p[1]) /\ kernel'[p[1]].filled = kernel[p[1]].filled
      BY <1>1, <2>1, <2>2, QueueIs
    <3>2. ~(Filling /\ Current = p[1])
      BY <1>9, <2>1, FillingAlone DEF QBufIoctl
    <3>3. caller.at = "on" /\ Current = p[1] => kernel[p[1]].filled = {}
      BY <1>1 DEF KernelInv
    <3> QED
      BY <1>4, <2>1, <3>1, <3>2, <3>3
  <2> QED
    BY <1>3, <1>9, <2>1, <2>2 DEF QBufIoctl
<1> QED
  BY <1>3, <1>5, <1>6, <1>7, <1>8, <1>9
  DEF Next, PollThread, Dispatch, QBuf, Finish, PollCommand, PollReturns,
      PollLoopEnds, ReadMsmFrame, CountReferences, NotifyChannel, NotifyThread,
      BufDone, QBufCounts, chVars, bufVars

\* The types of one buffer's variables.
LEMMA UserTypes ==
  ASSUME Types, NEW p \in Pairs
  PROVE  /\ users[p] \in SUBSET Users /\ refcnt[p] \in 0 .. 255
         /\ \A u \in Users : done[<<p, u>>] \in {"no", "checked", "queue", "ioctl"}
         /\ Cardinality(users[p]) \in 0 .. 3 /\ (Cardinality(users[p]) = 0 <=> users[p] = {})
BY UsersCount DEF Types, BufTypes

\* Every step keeps the poll thread's buffer out of everybody else's hands.
LEMMA PollStep ==
  ASSUME Places, Bufs, Next
  PROVE  PollInv'
<1>1. /\ Types /\ CallInv /\ StateInv /\ KernelInv /\ PollInv /\ setup' = setup /\ Types'
      /\ state \in [Streams -> {"CFG", "BUFFED", "REG", "ACTIVE"}]
      /\ users \in [Pairs -> SUBSET Users]
      /\ refcnt \in [Pairs -> 0 .. 255]
  BY TypesStep DEF Places, Types, ChTypes, BufTypes
<1> DEFINE b == poll.buf
           s == poll.buf[1]
<1>2. b # << >> => b \in Pairs /\ s \in Streams
  BY <1>1, PairFacts DEF Types, PollTypes
<1>3. poll.at \in {"poll", "loop", "read", "counted", "give", "call"}
  BY <1>1 DEF Types, PollTypes
<1>4. ASSUME UNCHANGED poll,
             b # << >> =>
               /\ state'[s] = "ACTIVE" \/ (caller'.at = "lost" /\ state'[s] = "REG")
               /\ users'[b] \subseteq users[b]
               /\ poll.at # "call" => \A u \in Users : done'[<<b, u>>] = done[<<b, u>>]
               /\ refcnt'[b] = refcnt[b] \/ poll.at \notin {"read", "counted"}
      PROVE  PollInv'
  BY <1>1, <1>4 DEF PollInv
<1>5. CASE UNCHANGED <<poll, state, caller, users, done, refcnt>>
  BY <1>1, <1>5 DEF PollInv
<1>6. CASE Start \/ Stop
  BY <1>1, <1>4, <1>6 DEF Start, Stop, bufVars, pollVars, PollInv, NoCall
<1>7. CASE CallGoesOn
  <2>1. caller.at \notin {"none", "lost"} /\ UNCHANGED <<poll, done>>
    BY <1>7 DEF CallGoesOn, GetBuf, RequestBuf, QueueCounts, QueueIoctl, Launch, StreamOn,
                StreamOff, Synced, Join, UnregBuf, PutBuf, bufVars, pollVars
  <2>2. Current \in Streams
    BY <1>1, <2>1, CalledIs
  <2>3. b # << >> => state[s] = "ACTIVE"
    BY <1>1, <2>1 DEF PollInv
  <2>4. ASSUME b # << >> => /\ state'[s] = "ACTIVE" \/ (caller'.at = "lost" /\ state'[s] = "REG")
                            /\ users'[b] = users[b] /\ refcnt'[b] = refcnt[b]
        PROVE  PollInv'
    BY <1>4, <2>1, <2>4
  <2>5. CASE UNCHANGED <<state, users, refcnt>>
    BY <2>3, <2>4, <2>5
  <2>6. CASE GetBuf
    <3>1. caller.op = "start"
      <4>1. caller.at \in (IF caller.op = "start" THEN Starting ELSE Stopping)
        BY <1>1, <2>1, CalledIs
      <4> QED
        BY <2>6, <4>1 DEF GetBuf, Stopping
    <3>2. Current = setup.order[caller.i] /\ caller.i \in 1 .. Len(setup.order) /\ Len(setup.order) \in Nat
      BY <1>1, <3>1, InOrder
    <3>3. state[Current] = "CFG"
      BY <1>1, <2>6, <3>1, <3>2 DEF GetBuf, StateInv
    <3> QED
      BY <1>1, <1>2, <2>2, <2>3, <2>4, <2>6, <3>3 DEF GetBuf, bufVars
  <2>7. CASE RequestBuf
    <3>1. state' = state /\ state[Current] = "BUFFED"
      BY <1>1, <2>7 DEF RequestBuf, StateInv
    <3>2. b # << >> => users'[b] = users[b] /\ refcnt'[b] = refcnt[b]
      BY <1>1, <1>2, <2>3, <2>7, <3>1 DEF RequestBuf
    <3> QED
      BY <2>3, <2>4, <3>1, <3>2
  <2>8. CASE QueueIoctl
    <3>1. state' = state /\ state[Current] = "BUFFED" /\ users' = users
      BY <1>1, <2>8 DEF QueueIoctl, StateInv
    <3>2. refcnt' = refcnt \/ refcnt' = [refcnt EXCEPT ![<<Current, NextBuf>>] = 0]
      BY <2>8 DEF QueueIoctl, NextBuf
    <3>3. b # << >> => b # <<Current, NextBuf>>
      BY <2>3, <3>1
    <3>4. b # << >> => refcnt'[b] = refcnt[b]
      BY <1>1, <1>2, <3>2, <3>3
    <3> QED
      BY <2>3, <2>4, <3>1, <3>4
  <2>9. CASE Launch
    <3>1. b # << >> => state'[s] = "ACTIVE"
      BY <1>1, <1>2, <2>2, <2>3, <2>9 DEF Launch
    <3> QED
      BY <2>4, <2>9, <3>1 DEF Launch
  <2>10. CASE Join
    <3>1. state' = [state EXCEPT ![Current] = "REG"] /\ users' = users /\ refcnt' = refcnt
          /\ (Handling(Current) => caller'.at = "lost")
      BY <2>10 DEF Join, NoCall
    <3>2. b # << >> => state'[s] = "ACTIVE" \/ (caller'.at = "lost" /\ state'[s] = "REG")
      BY <1>1, <1>2, <2>2, <2>3, <3>1 DEF Handling
    <3> QED
      BY <2>4, <3>1, <3>2
  <2>11. CASE UnregBuf
    <3>1. state[Current] # "ACTIVE" /\ users' = users
      BY <1>1, <2>11 DEF UnregBuf, StateInv
    <3>2. state' = state \/ state' = [state EXCEPT ![Current] = "BUFFED"]
      BY <2>11 DEF UnregBuf
    <3>3. refcnt' = refcnt \/ refcnt' = [p \in Pairs |-> IF p[1] = Current THEN 0 ELSE refcnt[p]]
      BY <2>11 DEF UnregBuf
    <3>4. b # << >> => state'[s] = "ACTIVE" /\ refcnt'[b] = refcnt[b]
      BY <1>1, <1>2, <2>2, <2>3, <3>1, <3>2, <3>3
    <3> QED
      BY <2>4, <3>1, <3>4
  <2>12. CASE PutBuf
    <3>1. CASE UNCHANGED <<users, state>>
      BY <2>5, <2>12, <3>1 DEF PutBuf
    <3>2. CASE state[Current] = "BUFFED"
      <4>1. /\ users' = [p \in Pairs |-> IF p[1] = Current THEN {} ELSE users[p]]
            /\ state' = [state EXCEPT ![Current] = "CFG"] /\ refcnt' = refcnt
        BY <2>12, <3>2 DEF PutBuf
      <4>2. b # << >> => state'[s] = "ACTIVE" /\ users'[b] = users[b]
        BY <1>1, <1>2, <2>2, <2>3, <3>2, <4>1
      <4> QED
        BY <2>4, <4>1, <4>2
    <3> QED
      BY <2>12, <3>1, <3>2 DEF PutBuf
  <2> QED
    BY <1>7, <2>5, <2>6, <2>7, <2>8, <2>9, <2>10, <2>11, <2>12
    DEF CallGoesOn, QueueCounts, StreamOn, StreamOff, Synced, bufVars
<1>8. CASE PollThread
  <2>1. UNCHANGED <<state, caller, done>>
    BY <1>8 DEF PollThread, PollCommand, PollReturns, PollLoopEnds, DataNotify, ReadMsmFrame,
                CountReferences, NotifyChannel, NotifyThread, bufVars, chVars
  <2>2. poll \in [at : {"poll", "loop", "read", "counted", "give", "call"},
                  ready : SUBSET Streams, buf : Pairs \cup {<< >>}]
    BY <1>1 DEF Types, PollTypes
  <2>3. CASE PollCommand
    BY <1>5, <2>3 DEF PollCommand, bufVars, chVars
  <2>4. CASE PollReturns \/ PollLoopEnds
    <3>1. poll'.buf = << >> /\ poll'.at \in {"poll", "loop"}
      <4>1. CASE PollReturns
        <5>1. poll.buf = << >>
          BY <1>1, <4>1 DEF PollReturns, PollInv
        <5> QED
          BY <2>2, <4>1, <5>1 DEF PollReturns
      <4>2. CASE PollLoopEnds
        BY <4>2 DEF PollLoopEnds, Polling
      <4> QED
        BY <2>4, <4>1, <4>2
    <3> QED
      BY <3>1 DEF PollInv
  <2>5. CASE DataNotify
    <3>1. users' = users /\ refcnt' = refcnt /\ poll.at = "loop" /\ poll.buf = << >>
      BY <1>1, <2>5 DEF DataNotify, bufVars, PollInv
    <3>2. PICK t \in poll.ready :
            \/ /\ state[t] = "ACTIVE"
               /\ \E c \in kernel[t].filled :
                    poll' = [at |-> "read", ready |-> poll.ready \ {t}, buf |-> <<t, c>>]
            \/ poll' = [poll EXCEPT !.ready = @ \ {t}]
      BY <2>5 DEF DataNotify
    <3>3. CASE poll' = [poll EXCEPT !.ready = @ \ {t}]
      <4>1. poll'.buf = << >> /\ poll'.at = "loop"
        BY <2>2, <3>1, <3>3
      <4> QED
        BY <4>1 DEF PollInv
    <3>4. ASSUME NEW c \in kernel[t].filled, state[t] = "ACTIVE",
                 poll' = [at |-> "read", ready |-> poll.ready \ {t}, buf |-> <<t, c>>]
          PROVE  PollInv'
      <4>1. t \in Streams /\ c \in Buffers
        BY <1>1, <2>2, <3>4 DEF Types, KernelSide
      <4> DEFINE p == <<t, c>>
      <4>2. p \in Pairs /\ p[1] = t /\ p[2] = c /\ p # << >>
        BY <4>1, NoPair DEF Pairs
      <4>3. InKernel(p)
        BY <3>4, <4>2 DEF InKernel
      <4>4. UserInv(p) /\ RefInv(p)
        BY <4>2 DEF Bufs
      <4>5. users[p] = {} /\ Ungiven(p) = 0 /\ \A u \in Users : done[<<p, u>>] = "no"
        BY <4>3, <4>4 DEF UserInv
      <4>6. refcnt[p] = 0
        BY <1>1, <3>4, <4>2, <4>4, <4>5, UserTypes DEF RefInv
      <4>7. poll'.buf = p /\ poll'.at = "read"
        BY <3>4
      <4> HIDE DEF p
      <4> QED
        BY <2>1, <3>1, <3>4, <4>2, <4>5, <4>6, <4>7 DEF PollInv
    <3> QED
      BY <3>2, <3>3, <3>4
  <2>6. CASE ReadMsmFrame
    <3>1. poll.at = "read" /\ users' = users /\ refcnt' = refcnt
      BY <2>6 DEF ReadMsmFrame
    <3>2. CASE poll' = [poll EXCEPT !.at = "counted"]
      <4>1. poll'.buf = b /\ poll'.at = "counted"
        BY <2>2, <3>2
      <4> QED
        BY <1>1, <2>1, <3>1, <4>1 DEF PollInv
    <3>3. CASE poll' = [poll EXCEPT !.at = "loop", !.buf = << >>]
      <4>1. poll'.buf = << >> /\ poll'.at = "loop"
        BY <2>2, <3>3
      <4> QED
        BY <4>1 DEF PollInv
    <3> QED
      BY <2>6, <3>2, <3>3 DEF ReadMsmFrame
  <2>7. CASE CountReferences
    <3>1. poll'.buf = b /\ poll.at = "counted" /\ poll'.at = "give" /\ users' = users
      BY <2>2, <2>7 DEF CountReferences
    <3> QED
      BY <1>1, <2>1, <3>1 DEF PollInv
  <2>8. CASE NotifyChannel
    <3>1. poll'.buf = b /\ poll.at = "give" /\ poll'.at = "call"
      BY <2>2, <2>8 DEF NotifyChannel
    <3>2. b \in Pairs /\ users[b] = {}
      BY <1>1, <1>2, <3>1 DEF PollInv
    <3>3. users'[b] \subseteq {"channel"}
      BY <1>1, <2>8, <3>2 DEF NotifyChannel
    <3> QED
      BY <1>1, <2>1, <3>1, <3>3 DEF PollInv
  <2>9. CASE NotifyThread
    <3>1. poll'.buf = << >> /\ poll'.at = "loop"
      BY <2>2, <2>9 DEF NotifyThread
    <3> QED
      BY <3>1 DEF PollInv
  <2> QED
    BY <1>8, <2>3, <2>4, <2>5, <2>6, <2>7, <2>8, <2>9 DEF PollThread
<1>9. ASSUME NEW p \in Pairs, Dispatch(p)
      PROVE  PollInv'
  <2>1. p # b
    BY <1>1, <1>9, PairFacts DEF Dispatch, PollInv
  <2>2. /\ users' = [users EXCEPT ![p] = @ \cup {"app"}]
        /\ refcnt' = [refcnt EXCEPT ![p] = (@ + 1) % 256]
        /\ At(p, "thread", "checked") /\ UNCHANGED <<poll, state, caller>>
    BY <1>9 DEF Dispatch, pollVars, chVars
  <2>3. "thread" \in Users
    BY DEF Users
  <2>5. b # << >> => users'[b] = users[b] /\ refcnt'[b] = refcnt[b]
    BY <1>1, <1>2, <2>1, <2>2
  <2>6. \A q \in Pairs, v \in Users : q # p \/ v # "thread" => done'[<<q, v>>] = done[<<q, v>>]
    BY <1>1, <2>2, <2>3, AtIs DEF At
  <2>4. b # << >> => /\ users'[b] = users[b] /\ refcnt'[b] = refcnt[b]
                     /\ \A u \in Users : done'[<<b, u>>] = done[<<b, u>>]
    BY <1>2, <2>1, <2>5, <2>6
  <2> QED
    BY <1>1, <1>4, <2>2, <2>4 DEF PollInv
<1>10. ASSUME NEW p \in Pairs, NEW u \in Users, QBuf(p, u) \/ Finish(p, u)
       PROVE  PollInv'
  <2>1. UNCHANGED <<poll, state, caller>>
    BY <1>10 DEF QBuf, Finish, BufDone, QBufCounts, QBufIoctl, pollVars, chVars
  <2>2. UserInv(p)
    BY DEF Bufs
  <2>3. b = p => /\ poll.at # "call" => users[b] = {} /\ \A v \in Users : done[<<b, v>>] = "no"
    BY <1>1, PairFacts DEF PollInv
  <2>4. b = p => poll.at = "call"
    BY <1>10, <2>2, <2>3 DEF QBuf, Finish, BufDone, QBufCounts, QBufIoctl, UserInv
  <2>5. /\ users' = users \/ Drop(p, u)
        /\ refcnt' = refcnt \/ refcnt' = [refcnt EXCEPT ![p] = (@ + 255) % 256]
        /\ done' = done \/ \E step : At(p, u, step)
    BY <1>10 DEF QBuf, Finish, BufDone, QBufCounts, QBufIoctl
  <2>6. b # << >> => users'[b] \subseteq users[b]
    BY <1>1, <1>2, <2>5 DEF Drop
  <2>8. \A q \in Pairs, v \in Users : q # p => done'[<<q, v>>] = done[<<q, v>>]
    <3>1. CASE done' = done
      BY <3>1
    <3>2. CASE \E step : At(p, u, step)
      <4>1. PICK step : done' = [done EXCEPT ![<<p, u>>] = step]
        BY <3>2 DEF At
      <4> QED
        BY <1>1, <4>1, AtIs
    <3> QED
      BY <2>5, <3>1, <3>2
  <2>9. b # << >> /\ b # p => refcnt'[b] = refcnt[b]
    BY <1>1, <1>2, <2>5
  <2>7. b # << >> /\ b # p =>
          refcnt'[b] = refcnt[b] /\ \A v \in Users : done'[<<b, v>>] = done[<<b, v>>]
    BY <1>2, <2>8, <2>9
  <2> QED
    BY <1>1, <1>4, <2>1, <2>4, <2>6, <2>7 DEF PollInv
<1> QED
  BY <1>5, <1>6, <1>7, <1>8, <1>9, <1>10 DEF Next, KernelFills, bufVars, pollVars, chVars

-----------------------------------------------------------------------------
(* One buffer.                                                             *)

OneBuf(p) == UserInv(p) /\ RefInv(p) /\ LossInv(p)

\* A stream that is on, or will be with the caller's next step.
Opened(p) == kernel[p[1]].streaming \/ (caller.at = "on" /\ Current = p[1])
Filled(p) == Filling /\ Current = p[1]
Asked(p) == caller.at \in {"request", "queue", "ioctl"} /\ Current = p[1]

\* p and its stream stay where they are, but the kernel may lose the buffer.
SameBuf(p) ==
  /\ users'[p] = users[p] /\ refcnt'[p] = refcnt[p]
  /\ \A u \in Users : done'[<<p, u>>] = done[<<p, u>>]
  /\ p \in lost => p \in lost'
SamePlace(p) ==
  /\ state'[p[1]] = state[p[1]] /\ (Asked(p)' => Asked(p))
  /\ p[2] \in kernel'[p[1]].queued => p[2] \in kernel[p[1]].queued
  /\ p[2] \in kernel'[p[1]].filled => p[2] \in kernel[p[1]].filled
  /\ Opened(p)' => Opened(p) /\ (InKernel(p) => InKernel(p)')
  /\ Filled(p)' => Filled(p)
SamePoll(p) == (poll'.buf = p <=> poll.buf = p) /\ (poll.buf = p => poll'.at = poll.at)

\* A lost buffer stays lost until the kernel is asked for its stream's buffers again.
LEMMA LostStays ==
  ASSUME Next, NEW p \in Pairs, p[1] # Current \/ ~RequestBuf
  PROVE  p \in lost => p \in lost'
<1>1. CASE Start \/ Stop
  BY <1>1 DEF Start, Stop, bufVars
<1>2. CASE RequestBuf
  BY <1>2 DEF RequestBuf, Of
<1>3. CASE CallGoesOn /\ ~RequestBuf
  BY <1>3 DEF CallGoesOn, GetBuf, QueueCounts, QueueIoctl, Launch, StreamOn, StreamOff,
              Synced, Join, UnregBuf, PutBuf, bufVars
<1>4. CASE PollThread
  BY <1>4 DEF PollThread, PollCommand, PollReturns, PollLoopEnds, DataNotify, ReadMsmFrame,
              CountReferences, NotifyChannel, NotifyThread, Lose, bufVars
<1>5. ASSUME NEW s \in Streams, KernelFills(s)
      PROVE  p \in lost => p \in lost'
  BY <1>5 DEF KernelFills, bufVars
<1>6. ASSUME NEW q \in Pairs, Dispatch(q)
      PROVE  p \in lost => p \in lost'
  BY <1>6 DEF Dispatch
<1>7. ASSUME NEW q \in Pairs, NEW u \in Users, QBuf(q, u) \/ Finish(q, u)
      PROVE  p \in lost => p \in lost'
  BY <1>7 DEF QBuf, Finish, BufDone, QBufCounts, QBufIoctl, Lose
<1> QED
  BY <1>1, <1>2, <1>3, <1>4, <1>5, <1>6, <1>7 DEF Next

\* A step that touches neither a buffer nor its stream keeps what holds of the buffer.
LEMMA Untouched ==
  ASSUME Types, setup' = setup, NEW p \in Pairs, OneBuf(p), SameBuf(p), SamePlace(p), SamePoll(p)
  PROVE  OneBuf(p)'
<1>1. UserInv(p) /\ RefInv(p) /\ LossInv(p)
  BY DEF OneBuf
<1>2. Ungiven(p)' = Ungiven(p)
  BY DEF Ungiven, SamePoll, Refs
<1>3. InKernel(p)' => InKernel(p)
  BY DEF SamePlace, InKernel
<1>4. UserInv(p)'
  <2>1. /\ users'[p] = users[p] /\ state'[p[1]] = state[p[1]]
        /\ \A u \in Users : done'[<<p, u>>] = done[<<p, u>>]
        /\ (poll'.buf = p <=> poll.buf = p) /\ (poll.buf = p => poll'.at = poll.at)
    BY DEF SameBuf, SamePlace, SamePoll
  <2>2. ~(p[2] \in kernel'[p[1]].queued /\ p[2] \in kernel'[p[1]].filled)
    BY <1>1 DEF UserInv, SamePlace
  <2>3. Asked(p)' => \A u \in Users : done[<<p, u>>] = "no"
    BY <1>1 DEF UserInv, SamePlace, Asked
  <2>4. \A u \in Users : done'[<<p, u>>] \in {"queue", "ioctl"} =>
          /\ users'[p] = {} /\ Ungiven(p)' = 0 /\ ~InKernel(p)'
          /\ \A v \in Users \ {u} : done'[<<p, v>>] = "no"
    BY <1>1, <1>2, <1>3, <2>1 DEF UserInv
  <2>5. InKernel(p)' => /\ users'[p] = {} /\ Ungiven(p)' = 0
                        /\ \A u \in Users : done'[<<p, u>>] = "no"
                        /\ poll'.buf = p => poll'.at = "call"
    BY <1>1, <1>2, <1>3, <2>1 DEF UserInv
  <2>6. \A u \in Users : done'[<<p, u>>] = "checked" => u \in users'[p]
    BY <1>1, <2>1 DEF UserInv
  <2>7. state'[p[1]] = "CFG" => users'[p] = {} /\ \A u \in Users : done'[<<p, u>>] = "no"
    BY <1>1, <2>1 DEF UserInv
  <2>8. "thread" \in users'[p] =>
          state'[p[1]] = "ACTIVE" /\ (done'[<<p, "thread">>] = "no" => "app" \notin users'[p])
    <3>1. "thread" \in Users
      BY DEF Users
    <3> QED
      BY <1>1, <2>1, <3>1 DEF UserInv
  <2> QED
    BY <2>1, <2>2, <2>3, <2>4, <2>5, <2>6, <2>7, <2>8 DEF UserInv, Asked
<1>5. RefInv(p)'
  BY <1>1, <1>2 DEF RefInv, SameBuf, SamePlace, Filled
<1>6. LossInv(p)'
  BY <1>1, <1>3 DEF LossInv, SameBuf, SamePlace, SamePoll, Opened
<1> QED
  BY <1>4, <1>5, <1>6 DEF OneBuf

\* A stream opened to buf_done is one that runs.
LEMMA OpenedIs ==
  ASSUME Places, NEW p \in Pairs, Opened(p)
  PROVE  state[p[1]] = "ACTIVE" /\ kernel[p[1]].requested
BY PairFacts DEF Places, Opened, KernelInv, StateInv

\* The references the poll thread holds.
LEMMA UngivenIs ==
  ASSUME Places, NEW p \in Pairs
  PROVE  /\ Ungiven(p) \in 0 .. 2
         /\ Ungiven(p) # 0 => poll.buf = p /\ (poll.at = "give" \/ (poll.at = "call" /\ p[1] \in Called))
         /\ Cardinality(users[p]) + Ungiven(p) <= 3
<1>1. /\ Ungiven(p) \in 0 .. 2
      /\ Ungiven(p) # 0 => poll.buf = p /\ (poll.at = "give" \/ (poll.at = "call" /\ p[1] \in Called))
  BY DEF Ungiven, Refs
<1>2. Cardinality(users[p]) \in 0 .. 3 /\ users[p] \in SUBSET Users
      /\ (users[p] = {} => Cardinality(users[p]) = 0)
  BY UserTypes DEF Places
<1>3. CASE Ungiven(p) = 0
  BY <1>1, <1>2, <1>3
<1>4. CASE Ungiven(p) # 0 /\ poll.at = "give"
  BY <1>1, <1>2, <1>4, PairFacts DEF Places, PollInv
<1>5. CASE Ungiven(p) # 0 /\ poll.at = "call"
  <2>1. Ungiven(p) = 1 /\ users[p] \subseteq {"channel"}
    BY <1>1, <1>5, PairFacts DEF Places, PollInv, Ungiven
  <2>2. users[p] = {} \/ users[p] = {"channel"}
    BY <2>1
  <2>3. Cardinality({"channel"}) = 1
    BY FS_Singleton
  <2> QED
    BY <1>1, <1>2, <2>1, <2>2, <2>3
<1> QED
  BY <1>1, <1>3, <1>4, <1>5

\* The buffers no step of the caller's touches.
LEMMA OtherStream ==
  ASSUME Places, Bufs, setup' = setup, NEW p \in Pairs, SameBuf(p), UNCHANGED poll,
         kernel'[p[1]] = kernel[p[1]], state'[p[1]] = state[p[1]],
         ~Asked(p)', ~Filled(p)', Opened(p)' => Opened(p)
  PROVE  OneBuf(p)'
<1>1. OneBuf(p) /\ Types
  BY DEF Bufs, OneBuf, Places
<1>2. SamePlace(p) /\ SamePoll(p)
  BY DEF SamePlace, SamePoll, InKernel
<1> QED
  BY <1>1, <1>2, Untouched

\* What a step of the caller's does to the buffers of a stream it may have had in its
\* hands, when it changes nothing but its place.
LEMMA CallerMoves ==
  ASSUME Places, Bufs, CallGoesOn, setup' = setup, NEW p \in Pairs,
         SameBuf(p), kernel'[p[1]] = kernel[p[1]], state'[p[1]] = state[p[1]],
         caller'.at \notin {"request", "queue", "ioctl", "on"} \/ Current' # p[1]
  PROVE  OneBuf(p)'
<1>1. poll' = poll
  BY DEF CallGoesOn, GetBuf, RequestBuf, QueueCounts, QueueIoctl, Launch, StreamOn,
         StreamOff, Synced, Join, UnregBuf, PutBuf, pollVars
<1>2. ~Asked(p)' /\ ~Filled(p)' /\ (Opened(p)' => Opened(p))
  BY DEF Asked, Filled, Filling, Opened
<1> QED
  BY <1>1, <1>2, OtherStream

\* Where the caller goes.
LEMMA CallerGoes ==
  ASSUME Places, CallGoesOn, setup' = setup
  PROVE  /\ caller.at \notin {"none", "lost"} /\ Current \in Streams
         /\ done' = done /\ poll' = poll
         /\ \/ Current' = Current
            \/ caller'.at \notin {"request", "queue", "ioctl", "on"}
<1>1. Types /\ CallInv
  BY DEF Places
<1>2. caller.at \notin {"none", "lost"} /\ done' = done /\ poll' = poll
  BY DEF CallGoesOn, GetBuf, RequestBuf, QueueCounts, QueueIoctl, Launch, StreamOn,
         StreamOff, Synced, Join, UnregBuf, PutBuf, pollVars, bufVars
<1>3. Current \in Streams
  BY <1>1, <1>2, CalledIs
<1>4. \A a : Go(a) => Current' = Current
  BY <1>1, <1>2, GoIs DEF Go
<1>5. GiveUp => caller'.at = "off"
  BY DEF GiveUp
<1>6. \A a : NextStream(a) => caller'.at \in {"none", a}
  BY <1>1, <1>2, NextStreamIs DEF NoCall
<1>7. CASE GetBuf \/ RequestBuf \/ QueueCounts \/ QueueIoctl \/ Launch
  BY <1>2, <1>3, <1>4, <1>5, <1>7 DEF GetBuf, RequestBuf, QueueCounts, QueueIoctl, Launch
<1>8. CASE StreamOn \/ StreamOff \/ Synced
  <2>1. (\E a : Go(a)) \/ NextStream("get")
    BY <1>8 DEF StreamOn, StreamOff, Synced
  <2> QED
    BY <1>2, <1>3, <1>4, <1>6, <2>1
<1>9. CASE Join
  BY <1>2, <1>3, <1>4, <1>5, <1>9 DEF Join, NoCall
<1>10. CASE UnregBuf \/ PutBuf
  <2>1. NextStream("off") \/ NextStream("put") \/ Go("put")
        \/ caller' = [caller EXCEPT !.at = "put", !.i = 1]
    BY <1>10 DEF UnregBuf, PutBuf
  <2>2. caller' = [caller EXCEPT !.at = "put", !.i = 1] => caller'.at = "put"
    BY <1>1, <1>2, CalledIs
  <2> QED
    BY <1>2, <1>3, <1>4, <1>6, <2>1, <2>2
<1> QED
  BY <1>7, <1>8, <1>9, <1>10 DEF CallGoesOn

\* The streams the caller does not have in its hands.
LEMMA CallFrame ==
  ASSUME Places, CallGoesOn, setup' = setup, NEW p \in Pairs, p[1] # Current
  PROVE  SameBuf(p) /\ kernel'[p[1]] = kernel[p[1]] /\ state'[p[1]] = state[p[1]]
<1>1. /\ Types /\ CallInv /\ p[1] \in Streams /\ p[2] \in Buffers
      /\ state \in [Streams -> {"CFG", "BUFFED", "REG", "ACTIVE"}]
      /\ refcnt \in [Pairs -> 0 .. 255]
      /\ users \in [Pairs -> SUBSET Users]
      /\ kernel \in [Streams -> KernelSide]
  BY PairFacts DEF Places, Types, ChTypes, BufTypes
<1>2. /\ caller.at \notin {"none", "lost"} /\ Current \in Streams /\ done' = done
      /\ Current' = Current \/ caller'.at \notin {"request", "queue", "ioctl", "on"}
  BY CallerGoes
<1>3. state'[p[1]] = state[p[1]]
  <2>1. \/ state' = state
        \/ \E v \in {"BUFFED", "REG", "ACTIVE", "CFG"} : state' = [state EXCEPT ![Current] = v]
    BY DEF CallGoesOn, GetBuf, RequestBuf, QueueCounts, QueueIoctl, Launch, StreamOn,
           StreamOff, Synced, Join, UnregBuf, PutBuf
  <2> QED
    BY <1>1, <1>2, <2>1
<1>4. users'[p] = users[p]
  <2>1. \/ users' = users
        \/ users' = [q \in Pairs |-> IF q[1] # Current THEN users[q]
                                     ELSE IF q[2] \in setup.held[Current] THEN {"app"} ELSE {}]
        \/ users' = [q \in Pairs |-> IF q[1] = Current THEN {} ELSE users[q]]
    BY DEF CallGoesOn, GetBuf, RequestBuf, QueueCounts, QueueIoctl, Launch, StreamOn,
           StreamOff, Synced, Join, UnregBuf, PutBuf, bufVars
  <2> QED
    BY <1>1, <1>2, <2>1
<1>5. refcnt'[p] = refcnt[p]
  <2>1. \/ refcnt' = refcnt
        \/ refcnt' = [q \in Pairs |-> IF q[1] = Current /\ q[2] \in setup.held[Current] THEN 1 ELSE refcnt[q]]
        \/ refcnt' = [q \in Pairs |-> IF q[1] = Current THEN 0 ELSE refcnt[q]]
        \/ \E b : refcnt' = [refcnt EXCEPT ![<<Current, b>>] = 0]
    BY DEF CallGoesOn, GetBuf, RequestBuf, QueueCounts, QueueIoctl, Launch, StreamOn,
           StreamOff, Synced, Join, UnregBuf, PutBuf, bufVars
  <2>2. \A b : <<Current, b>> # p
    OBVIOUS
  <2> QED
    BY <1>1, <1>2, <2>1, <2>2
<1>6. kernel'[p[1]] = kernel[p[1]]
  <2>1. \/ kernel' = kernel
        \/ \E k : kernel' = [kernel EXCEPT ![Current] = k]
    <3>1. CASE RequestBuf \/ Synced \/ UnregBuf
      BY <3>1 DEF RequestBuf, Synced, UnregBuf
    <3>2. CASE QueueIoctl
      <4>1. CASE kernel' = [kernel EXCEPT ![Current].queued = @ \cup {NextBuf}]
        <5>1. kernel' = [kernel EXCEPT ![Current] = [kernel[Current] EXCEPT !.queued = @ \cup {NextBuf}]]
          BY <4>1
        <5> QED
          BY <5>1
      <4> QED
        BY <3>2, <4>1 DEF QueueIoctl, NextBuf
    <3>3. CASE StreamOn
      <4>1. CASE kernel' = [kernel EXCEPT ![Current].streaming = TRUE]
        <5>1. kernel' = [kernel EXCEPT ![Current] = [kernel[Current] EXCEPT !.streaming = TRUE]]
          BY <4>1
        <5> QED
          BY <5>1
      <4> QED
        BY <3>3, <4>1 DEF StreamOn
    <3> QED
      BY <3>1, <3>2, <3>3 DEF CallGoesOn, GetBuf, QueueCounts, Launch, StreamOff, Join, PutBuf
  <2> QED
    BY <1>1, <1>2, <2>1
<1>7. SameBuf(p)
  <2>1. p \in lost => p \in lost'
    BY LostStays DEF Next
  <2> QED
    BY <1>2, <1>4, <1>5, <2>1 DEF SameBuf
<1> QED
  BY <1>3, <1>6, <1>7

\* A call leaves the buffers of the streams it does not have as they are.
LEMMA CallOther ==
  ASSUME Places, Bufs, CallGoesOn, setup' = setup, NEW p \in Pairs, p[1] # Current
  PROVE  OneBuf(p)'
BY CallerGoes, CallFrame, CallerMoves

\* The buffers of the stream it has: being asked for and filled.
LEMMA CallFills ==
  ASSUME Places, Bufs, Next, GetBuf \/ RequestBuf \/ QueueCounts \/ QueueIoctl \/ Launch,
         NEW p \in Pairs, p[1] = Current
  PROVE  OneBuf(p)'
<1>1. /\ Types /\ CallInv /\ StateInv /\ KernelInv /\ PollInv /\ setup' = setup
      /\ p[1] \in Streams /\ p[2] \in Buffers /\ p = <<p[1], p[2]>> /\ p # << >>
      /\ state \in [Streams -> {"CFG", "BUFFED", "REG", "ACTIVE"}]
      /\ kernel \in [Streams -> KernelSide]
      /\ refcnt \in [Pairs -> 0 .. 255]
      /\ users \in [Pairs -> SUBSET Users]
  BY TypesStep, PairFacts DEF Places, Types, ChTypes, BufTypes
<1>2. UserInv(p) /\ RefInv(p) /\ LossInv(p)
  BY DEF Bufs
<1>3. CallGoesOn /\ caller.at \in {"get", "request", "queue", "ioctl"}
  BY DEF CallGoesOn, GetBuf, RequestBuf, QueueCounts, QueueIoctl, Launch
<1>4. done' = done /\ poll' = poll
  BY <1>1, <1>3, CallerGoes
<1>5. caller.op = "start"
  <2>1. caller.at \in (IF caller.op = "start" THEN Starting ELSE Stopping)
    BY <1>1, <1>3, CalledIs
  <2> QED
    BY <1>3, <2>1 DEF Stopping
<1>6. state[p[1]] = IF caller.at = "get" THEN "CFG" ELSE "BUFFED"
  <2>1. Current = setup.order[caller.i] /\ caller.i \in 1 .. Len(setup.order) /\ Len(setup.order) \in Nat
    BY <1>1, <1>5, InOrder
  <2> QED
    BY <1>1, <1>3, <1>5, <2>1 DEF StateInv
<1>7. poll.buf # p /\ ~kernel[p[1]].streaming
  BY <1>1, <1>3, <1>6 DEF PollInv, KernelInv
<1>8. Ungiven(p) = 0 /\ Ungiven(p)' = 0
  BY <1>4, <1>7 DEF Ungiven
<1>9. \A u \in Users : done[<<p, u>>] = "no" /\ done'[<<p, u>>] = "no"
  BY <1>1, <1>2, <1>3, <1>4, <1>6 DEF UserInv
<1>10. \A a : Go(a) => caller'.at = a /\ caller'.op = caller.op /\ Current' = Current
  BY <1>1, <1>3, GoIs DEF Go
<1>11. ASSUME GiveUp, SameBuf(p), kernel' = kernel, state' = state
       PROVE  OneBuf(p)'
  BY <1>1, <1>3, <1>11, CallerMoves DEF GiveUp
\* What is left to show when nobody gives the buffer back.
<1>12. ASSUME "thread" \notin users'[p], state'[p[1]] # "REG",
              InKernel(p)' => users'[p] = {},
              ~(p[2] \in kernel'[p[1]].queued /\ p[2] \in kernel'[p[1]].filled),
              state'[p[1]] = "CFG" => users'[p] = {}
       PROVE  UserInv(p)'
  BY <1>4, <1>7, <1>8, <1>9, <1>12 DEF UserInv
<1>13. CASE GetBuf
  <2>1. users[p] = {}
    BY <1>1, <1>2, <1>6, <1>13 DEF GetBuf, UserInv
  <2>2. /\ kernel' = kernel /\ users'[p] = {} /\ refcnt' = refcnt
        /\ state'[p[1]] \in {"CFG", "BUFFED"}
    BY <1>1, <1>6, <1>13, <2>1 DEF GetBuf, bufVars
  <2>3. caller'.at \in {"request", "off"}
    BY <1>10, <1>13 DEF GetBuf, GiveUp
  <2>4. UserInv(p)'
    BY <1>2, <1>12, <2>2 DEF UserInv
  <2>5. RefInv(p)'
    BY <1>9, <2>2, <2>3 DEF RefInv, Filling
  <2>6. LossInv(p)'
    BY <1>1, <1>2, <1>4, <1>7, <2>2, <2>3, <2>1 DEF LossInv, InKernel
  <2> QED
    BY <2>4, <2>5, <2>6 DEF OneBuf
<1>14. CASE RequestBuf
  <2>1. CASE GiveUp /\ UNCHANGED <<kernel, count, refcnt, users, lost>>
    BY <1>4, <1>11, <1>14, <2>1 DEF RequestBuf, SameBuf
  <2>2. CASE /\ kernel' = [kernel EXCEPT ![Current] = [Quiet EXCEPT !.requested = TRUE]]
             /\ refcnt' = [q \in Pairs |->
                            IF q[1] = Current /\ q[2] \in setup.held[Current] THEN 1 ELSE refcnt[q]]
             /\ users' = [q \in Pairs |-> IF q[1] # Current THEN users[q]
                                          ELSE IF q[2] \in setup.held[Current] THEN {"app"} ELSE {}]
             /\ Go("queue")
    <3>1. state' = state /\ caller'.at = "queue" /\ Current' = Current
      BY <1>10, <1>14, <2>2 DEF RequestBuf
    <3>2. kernel'[p[1]].queued = {} /\ kernel'[p[1]].filled = {} /\ ~kernel'[p[1]].streaming
      <4>1. kernel'[p[1]] = [Quiet EXCEPT !.requested = TRUE]
        BY <1>1, <2>2
      <4> QED
        BY <4>1 DEF Quiet
    <3>3. /\ p[2] \in setup.held[p[1]] => users'[p] = {"app"} /\ refcnt'[p] = 1
          /\ p[2] \notin setup.held[p[1]] => users'[p] = {} /\ refcnt'[p] = refcnt[p]
      BY <1>1, <2>2
    <3>4. setup.held[p[1]] \subseteq setup.buffers[p[1]]
      BY <1>1, <1>3, CalledIs
    <3>5. state'[p[1]] = "BUFFED" /\ ~InKernel(p)'
      BY <1>6, <1>14, <3>1, <3>2 DEF RequestBuf, InKernel
    <3>6. UserInv(p)'
      BY <1>12, <3>2, <3>3, <3>5
    <3>7. RefInv(p)'
      BY <1>1, <1>9, <3>2, <3>3, <3>5 DEF RefInv
    <3>8. LossInv(p)'
      BY <1>1, <1>2, <1>4, <1>7, <1>9, <3>1, <3>2, <3>3, <3>4, <3>5 DEF LossInv
    <3> QED
      BY <3>6, <3>7, <3>8 DEF OneBuf
  <2> QED
    BY <1>14, <2>1, <2>2 DEF RequestBuf
<1>15. CASE QueueCounts
  <2>1. /\ users' = users /\ refcnt' = refcnt /\ kernel' = kernel /\ state' = state
        /\ lost' = lost /\ caller.at = "queue"
    BY <1>15 DEF QueueCounts
  <2>2. CASE GiveUp
    BY <1>4, <1>11, <2>1, <2>2 DEF SameBuf
  <2>3. CASE Go("ioctl")
    <3>1. caller'.at = "ioctl" /\ Current' = Current
      BY <1>10, <2>3
    <3>2. SameBuf(p) /\ SamePlace(p) /\ SamePoll(p)
      BY <1>1, <1>4, <2>1, <3>1
      DEF SameBuf, SamePlace, SamePoll, Asked, Filled, Filling, Opened, InKernel
    <3> QED
      BY <1>1, <1>2, <3>2, Untouched DEF OneBuf
  <2> QED
    BY <1>15, <2>2, <2>3 DEF QueueCounts
<1>16. CASE QueueIoctl
  <2>1. CASE GiveUp /\ UNCHANGED <<kernel, refcnt>>
    BY <1>4, <1>11, <1>16, <2>1 DEF QueueIoctl, SameBuf
  <2>2. CASE /\ kernel' = [kernel EXCEPT ![Current].queued = @ \cup {NextBuf}]
             /\ refcnt' = [refcnt EXCEPT ![<<Current, NextBuf>>] = 0]
             /\ Go("queue")
    <3>1. /\ state' = state /\ users' = users /\ caller'.at = "queue" /\ Current' = Current
          /\ caller.at = "ioctl" /\ Filled(p) /\ lost' = lost
      BY <1>1, <1>10, <1>16, <2>2 DEF QueueIoctl, Filled, Filling
    <3>2. NextBuf \in ToQueue
      BY <1>1, <3>1, NextBufIs DEF KernelInv
    <3>3. NextBuf \in Buffers /\ NextBuf \in setup.buffers[p[1]] \ setup.held[p[1]]
      <4>1. setup.buffers[Current] \subseteq Buffers
        BY <1>1, <1>3, CalledIs
      <4> QED
        BY <1>1, <3>2, <4>1 DEF ToQueue
    <3>4. KernelMoves(Current) /\ kernel'[Current].queued = kernel[Current].queued \cup {NextBuf}
          /\ kernel'[Current].filled = kernel[Current].filled
      BY <1>1, <2>2, <3>3, QueueIs
    <3>5. CASE p[2] # NextBuf
      <4>1. p # <<Current, NextBuf>>
        BY <3>5
      <4>2. refcnt'[p] = refcnt[p]
        BY <1>1, <2>2, <4>1
      <4>3. SameBuf(p) /\ SamePlace(p) /\ SamePoll(p)
        BY <1>1, <1>4, <3>1, <3>4, <3>5, <4>2
        DEF SameBuf, SamePlace, SamePoll, Asked, Filled, Filling, Opened, InKernel, KernelMoves
      <4> QED
        BY <1>1, <1>2, <4>3, Untouched DEF OneBuf
    <3>6. CASE p[2] = NextBuf
      <4>1. refcnt'[p] = 0
        <5>1. p = <<Current, NextBuf>>
          BY <1>1, <3>6
        <5> QED
          BY <1>1, <2>2, <5>1
      <4>2. users[p] = {} /\ users'[p] = {}
        BY <1>1, <1>2, <3>1, <3>3, <3>6 DEF RefInv, Filled
      <4>3. kernel'[p[1]].filled = {} /\ ~kernel'[p[1]].streaming
        BY <1>1, <1>7, <3>1, <3>4 DEF KernelInv, KernelMoves
      <4>4. state'[p[1]] = "BUFFED"
        BY <1>6, <3>1
      <4>5. UserInv(p)'
        BY <1>12, <4>2, <4>3, <4>4
      <4>6. RefInv(p)'
        BY <1>1, <1>9, <3>3, <3>6, <4>1, <4>2, <4>4 DEF RefInv
      <4>7. LossInv(p)'
        BY <1>1, <3>1, <3>3, <3>6, <4>3 DEF LossInv
      <4> QED
        BY <4>5, <4>6, <4>7 DEF OneBuf
    <3> QED
      BY <3>5, <3>6
  <2> QED
    BY <1>16, <2>1, <2>2 DEF QueueIoctl, NextBuf
<1>17. CASE Launch
  <2>1. /\ users' = users /\ refcnt' = refcnt /\ kernel' = kernel /\ caller.at = "queue"
        /\ caller'.at = "on" /\ Current' = Current /\ ToQueue = {} /\ Filled(p)
        /\ state' = [state EXCEPT ![Current] = "ACTIVE"]
    BY <1>10, <1>17 DEF Launch, Filled, Filling
  <2>2. state'[p[1]] = "ACTIVE"
    BY <1>1, <2>1
  <2>3. CASE p[2] \in setup.held[p[1]]
    <3>1. users[p] = {"app"} /\ refcnt[p] = 1
      BY <1>2, <2>1, <2>3 DEF RefInv, Filled
    <3>2. Cardinality(users'[p]) = 1 /\ users'[p] = {"app"} /\ refcnt'[p] = 1
      BY <2>1, <3>1, FS_Singleton
    <3>3. UserInv(p)'
      BY <1>2, <1>12, <2>1, <2>2, <3>2 DEF UserInv, InKernel
    <3>4. RefInv(p)'
      BY <1>8, <2>1, <2>2, <3>2 DEF RefInv, Filling
    <3>5. LossInv(p)'
      BY <1>1, <1>2, <3>1, <3>2, <2>3 DEF LossInv
    <3> QED
      BY <3>3, <3>4, <3>5 DEF OneBuf
  <2>4. CASE p[2] \notin setup.held[p[1]]
    <3>1. users[p] = {} /\ (p[2] \in kernel[p[1]].queued => refcnt[p] = 0)
      BY <1>2, <2>1, <2>4 DEF RefInv, Filled
    <3>2. p[2] \in setup.buffers[p[1]] => p[2] \in kernel[p[1]].queued
      BY <1>1, <2>1, <2>4 DEF ToQueue
    <3>3. refcnt[p] = 0
      BY <1>2, <3>1, <3>2 DEF LossInv
    <3>4. users'[p] = {} /\ refcnt'[p] = 0 /\ Cardinality(users'[p]) = 0
      BY <2>1, <3>1, <3>3, FS_EmptySet
    <3>5. UserInv(p)'
      BY <1>2, <1>12, <2>1, <2>2, <3>4 DEF UserInv, InKernel
    <3>6. RefInv(p)'
      BY <1>8, <2>1, <2>2, <3>4 DEF RefInv, Filling
    <3>7. LossInv(p)'
      BY <1>1, <1>2, <1>4, <2>1, <3>2, <3>4 DEF LossInv, InKernel
    <3> QED
      BY <3>5, <3>6, <3>7 DEF OneBuf
  <2> QED
    BY <2>3, <2>4
<1> QED
  BY <1>13, <1>14, <1>15, <1>16, <1>17

\* The buffers of the stream it has: started, stopped and taken away.
LEMMA CallStops ==
  ASSUME Places, Bufs, Next,
         StreamOn \/ StreamOff \/ Synced \/ Join \/ UnregBuf \/ PutBuf,
         NEW p \in Pairs, p[1] = Current
  PROVE  OneBuf(p)'
<1>1. /\ Types /\ CallInv /\ StateInv /\ KernelInv /\ PollInv /\ setup' = setup
      /\ p[1] \in Streams /\ p[2] \in Buffers
      /\ state \in [Streams -> {"CFG", "BUFFED", "REG", "ACTIVE"}]
      /\ kernel \in [Streams -> KernelSide]
      /\ refcnt \in [Pairs -> 0 .. 255]
      /\ users \in [Pairs -> SUBSET Users]
  BY TypesStep, PairFacts DEF Places, Types, ChTypes, BufTypes
<1>2. UserInv(p) /\ RefInv(p) /\ LossInv(p)
  BY DEF Bufs
<1>3. CallGoesOn /\ caller.at \in {"on", "off", "wait", "join", "unreg", "put"}
  BY DEF CallGoesOn, StreamOn, StreamOff, Synced, Join, UnregBuf, PutBuf
<1>4. done' = done /\ poll' = poll
  BY <1>1, <1>3, CallerGoes
<1>5. Ungiven(p)' = Ungiven(p)
  BY <1>4 DEF Ungiven, Refs
<1>6. \A a : Go(a) => caller'.at = a /\ caller'.op = caller.op /\ Current' = Current
  BY <1>1, <1>3, GoIs DEF Go
<1>7. \A a : NextStream(a) => caller'.at \in {"none", a}
  BY <1>1, <1>3, NextStreamIs DEF NoCall
<1>8. ASSUME caller'.at \notin {"request", "queue", "ioctl", "on"},
             SameBuf(p), kernel' = kernel, state' = state
      PROVE  OneBuf(p)'
  BY <1>1, <1>3, <1>8, CallerMoves
<1>9. CASE StreamOn
  <2>1. /\ users' = users /\ refcnt' = refcnt /\ lost' = lost
        /\ state' = state /\ caller.at = "on"
    BY <1>9 DEF StreamOn, bufVars
  <2>2. CASE kernel' = [kernel EXCEPT ![Current].streaming = TRUE] /\ NextStream("get")
    <3>1. kernel'[p[1]].queued = kernel[p[1]].queued /\ kernel'[p[1]].filled = kernel[p[1]].filled
      BY <1>1, <2>2, OnIs
    <3>2. caller'.at \in {"none", "get"}
      BY <1>7, <2>2
    <3>3. SameBuf(p) /\ SamePlace(p) /\ SamePoll(p)
      BY <1>4, <2>1, <3>1, <3>2
      DEF SameBuf, SamePlace, SamePoll, Asked, Filled, Filling, Opened, InKernel
    <3> QED
      BY <1>1, <1>2, <3>3, Untouched DEF OneBuf
  <2>3. CASE Go("wait") /\ UNCHANGED kernel
    BY <1>4, <1>6, <1>8, <2>1, <2>3 DEF SameBuf
  <2> QED
    BY <1>9, <2>2, <2>3 DEF StreamOn
<1>10. CASE StreamOff
  <2>1. kernel' = kernel /\ state' = state /\ SameBuf(p)
    BY <1>10 DEF StreamOff, bufVars, SameBuf
  <2>2. caller'.at \in {"wait", "unreg"}
    BY <1>6, <1>10 DEF StreamOff
  <2> QED
    BY <1>8, <2>1, <2>2
<1>11. CASE Synced
  <2>1. state' = state /\ SameBuf(p) /\ caller'.at = "join" /\ Current' = Current
    BY <1>6, <1>11 DEF Synced, bufVars, SameBuf
  <2>2. CASE caller.op = "start"
    BY <1>8, <1>11, <2>1, <2>2 DEF Synced
  <2>3. CASE caller.op # "start"
    <3>1. kernel'[p[1]] = [Quiet EXCEPT !.requested = TRUE]
      BY <1>1, <1>11, <2>3 DEF Synced
    <3>2. kernel'[p[1]].queued = {} /\ kernel'[p[1]].filled = {} /\ ~kernel'[p[1]].streaming
      BY <3>1 DEF Quiet
    <3>3. SamePlace(p) /\ SamePoll(p)
      BY <1>4, <2>1, <3>2 DEF SamePlace, SamePoll, Asked, Filled, Filling, Opened, InKernel
    <3> QED
      BY <1>1, <1>2, <2>1, <3>3, Untouched DEF OneBuf
  <2> QED
    BY <2>2, <2>3
<1>12. CASE Join
  <2>1. /\ users' = users /\ refcnt' = refcnt /\ kernel' = kernel /\ caller.at = "join"
        /\ state' = [state EXCEPT ![Current] = "REG"]
        /\ \A q \in Of(Current) : "thread" \notin users[q]
    BY <1>12 DEF Join
  <2>2. caller'.at \in {"lost", "off", "unreg"}
    BY <1>6, <1>12 DEF Join, GiveUp, NoCall
  <2>3. state[p[1]] = "ACTIVE" /\ ~kernel[p[1]].streaming /\ state'[p[1]] = "REG"
    BY <1>1, <2>1 DEF StateInv, KernelInv
  <2>4. "thread" \notin users[p]
    BY <1>1, <2>1 DEF Of
  <2>5. UserInv(p)'
    BY <1>2, <1>4, <1>5, <2>1, <2>2, <2>3, <2>4 DEF UserInv, InKernel
  <2>6. RefInv(p)'
    <3>1. Cardinality(users[p]) + Ungiven(p) <= 3 /\ refcnt[p] = Cardinality(users[p]) + Ungiven(p)
      BY <1>2, <2>3, UngivenIs DEF RefInv
    <3>2. Cardinality(users'[p]) + Ungiven(p)' <= refcnt'[p] /\ refcnt'[p] <= 3
      <4>1. Cardinality(users[p]) \in Nat /\ Ungiven(p) \in Nat
        BY <1>1, UserTypes, UngivenIs
      <4> QED
        BY <1>5, <2>1, <3>1, <4>1
    <3>3. ~Filling'
      BY <2>2 DEF Filling
    <3> QED
      BY <2>3, <3>2, <3>3 DEF RefInv
  <2>7. LossInv(p)'
    BY <1>1, <1>2, <1>4, <2>1, <2>2, <2>3 DEF LossInv, InKernel
  <2> QED
    BY <2>5, <2>6, <2>7 DEF OneBuf
<1>13. CASE UnregBuf
  <2>1. caller'.at \in {"none", "off", "put"}
    <3>1. caller' = [caller EXCEPT !.at = "put", !.i = 1] => caller'.at = "put"
      BY <1>1, <1>3, CalledIs
    <3> QED
      BY <1>6, <1>7, <1>13, <3>1 DEF UnregBuf
  <2>2. CASE state[Current] # "REG"
    BY <1>4, <1>8, <1>13, <2>1, <2>2 DEF UnregBuf, SameBuf
  <2>3. CASE state[Current] = "REG"
    <3>1. /\ kernel' = [kernel EXCEPT ![Current] = Quiet] /\ users' = users
          /\ refcnt' = [q \in Pairs |-> IF q[1] = Current THEN 0 ELSE refcnt[q]]
          /\ state' = [state EXCEPT ![Current] = "BUFFED"]
      BY <1>13, <2>3 DEF UnregBuf
    <3>2. kernel'[p[1]] = Quiet /\ refcnt'[p] = 0 /\ state'[p[1]] = "BUFFED" /\ state[p[1]] = "REG"
      BY <1>1, <2>3, <3>1
    <3>3. ~InKernel(p)' /\ ~kernel'[p[1]].streaming /\ p[2] \notin kernel'[p[1]].queued
      BY <3>2 DEF InKernel, Quiet
    <3>4. UserInv(p)'
      BY <1>2, <1>4, <1>5, <2>1, <3>1, <3>2, <3>3 DEF UserInv
    <3>5. RefInv(p)'
      BY <2>1, <3>2 DEF RefInv, Filling
    <3>6. LossInv(p)'
      BY <1>1, <1>2, <1>4, <2>1, <3>1, <3>2, <3>3 DEF LossInv
    <3> QED
      BY <3>4, <3>5, <3>6 DEF OneBuf
  <2> QED
    BY <2>2, <2>3
<1>14. CASE PutBuf
  <2>1. caller'.at \in {"none", "off", "put"}
    BY <1>7, <1>14 DEF PutBuf
  <2>2. CASE state[Current] # "BUFFED"
    BY <1>4, <1>8, <1>14, <2>1, <2>2 DEF PutBuf, SameBuf
  <2>3. CASE state[Current] = "BUFFED"
    <3>1. /\ \A q \in Of(Current), u \in Users : done[<<q, u>>] = "no"
          /\ users' = [q \in Pairs |-> IF q[1] = Current THEN {} ELSE users[q]]
          /\ state' = [state EXCEPT ![Current] = "CFG"]
          /\ refcnt' = refcnt /\ kernel' = kernel
      BY <1>14, <2>3 DEF PutBuf
    <3>2. users'[p] = {} /\ state'[p[1]] = "CFG" /\ state[p[1]] = "BUFFED"
      BY <1>1, <2>3, <3>1
    <3>3. \A u \in Users : done'[<<p, u>>] = "no"
      BY <1>1, <1>4, <3>1 DEF Of
    <3>4. ~kernel[p[1]].streaming
      BY <1>1, <3>2 DEF KernelInv
    <3>5. UserInv(p)'
      BY <1>2, <1>4, <1>5, <2>1, <3>1, <3>2, <3>3 DEF UserInv, InKernel
    <3>6. RefInv(p)'
      BY <2>1, <3>2 DEF RefInv, Filling
    <3>7. LossInv(p)'
      BY <1>1, <1>2, <1>4, <2>1, <3>1, <3>2, <3>3, <3>4 DEF LossInv, InKernel
    <3> QED
      BY <3>5, <3>6, <3>7 DEF OneBuf
  <2> QED
    BY <2>2, <2>3
<1> QED
  BY <1>9, <1>10, <1>11, <1>12, <1>13, <1>14

\* All steps of a call, for any buffer.
LEMMA CallBufs ==
  ASSUME Places, Bufs, Next, CallGoesOn, NEW p \in Pairs
  PROVE  OneBuf(p)'
<1>1. setup' = setup
  BY TypesStep
<1> QED
  BY <1>1, CallOther, CallFills, CallStops DEF CallGoesOn

\* The buffers while the kernel and the poll thread go on.
LEMMA PollBufs ==
  ASSUME Places, Bufs, Next, PollThread, NEW p \in Pairs
  PROVE  OneBuf(p)'
<1>1. /\ Types /\ CallInv /\ StateInv /\ KernelInv /\ PollInv /\ setup' = setup
      /\ p[1] \in Streams /\ p[2] \in Buffers /\ p # << >> /\ p = <<p[1], p[2]>>
      /\ kernel \in [Streams -> KernelSide]
      /\ refcnt \in [Pairs -> 0 .. 255]
      /\ users \in [Pairs -> SUBSET Users]
      /\ poll \in [at : {"poll", "loop", "read", "counted", "give", "call"},
                   ready : SUBSET Streams, buf : Pairs \cup {<< >>}]
  BY TypesStep, PairFacts DEF Places, Types, BufTypes, PollTypes
<1>2. UserInv(p) /\ RefInv(p) /\ LossInv(p)
  BY DEF Bufs
<1>3. UNCHANGED <<state, caller, done, thread>>
  BY DEF PollThread, PollCommand, PollReturns, PollLoopEnds, DataNotify, ReadMsmFrame,
         CountReferences, NotifyChannel, NotifyThread, bufVars, chVars
<1>4. Current' = Current /\ (p \in lost => p \in lost')
  <2>1. p \in lost => p \in lost'
    BY DEF PollThread, PollCommand, PollReturns, PollLoopEnds, DataNotify, ReadMsmFrame,
           CountReferences, NotifyChannel, NotifyThread, Lose, bufVars
  <2> QED
    BY <1>1, <1>3, <2>1, SameCurrent
<1>5. ASSUME UNCHANGED <<users, refcnt, kernel>>, SamePoll(p)
      PROVE  OneBuf(p)'
  <2>1. SameBuf(p) /\ SamePlace(p)
    BY <1>3, <1>4, <1>5 DEF SameBuf, SamePlace, Asked, Filled, Filling, Opened, InKernel
  <2> QED
    BY <1>1, <1>2, <1>5, <2>1, Untouched DEF OneBuf
<1>6. CASE PollCommand
  BY <1>5, <1>6 DEF PollCommand, bufVars, SamePoll
<1>7. CASE PollReturns \/ PollLoopEnds
  <2>1. poll.buf = << >> /\ poll'.buf = << >>
    <3>1. CASE PollReturns
      <4>1. poll.buf = << >>
        BY <1>1, <3>1 DEF PollReturns, PollInv
      <4>2. poll'.buf = poll.buf
        BY <1>1, <3>1 DEF PollReturns
      <4> QED
        BY <4>1, <4>2
    <3>2. CASE PollLoopEnds
      BY <1>1, <3>2 DEF PollLoopEnds, PollInv, Polling
    <3> QED
      BY <1>7, <3>1, <3>2
  <2> QED
    BY <1>1, <1>5, <1>7, <2>1 DEF PollReturns, PollLoopEnds, bufVars, SamePoll
<1>8. CASE DataNotify
  <2>1. users' = users /\ refcnt' = refcnt /\ poll.at = "loop" /\ poll.buf = << >>
    BY <1>1, <1>8 DEF DataNotify, bufVars, PollInv
  <2>2. PICK s \in poll.ready :
          \/ /\ state[s] = "ACTIVE"
             /\ \E b \in kernel[s].filled :
                  /\ kernel' = [kernel EXCEPT ![s].filled = @ \ {b}]
                  /\ poll' = [at |-> "read", ready |-> poll.ready \ {s}, buf |-> <<s, b>>]
          \/ poll' = [poll EXCEPT !.ready = @ \ {s}] /\ UNCHANGED kernel
    BY <1>8 DEF DataNotify
  <2>3. s \in Streams
    BY <1>1
  <2>4. CASE poll' = [poll EXCEPT !.ready = @ \ {s}] /\ UNCHANGED kernel
    <3>1. poll'.buf = << >>
      BY <1>1, <2>1, <2>4
    <3> QED
      BY <1>1, <1>5, <2>1, <2>4, <3>1 DEF SamePoll
  <2>5. ASSUME NEW b \in kernel[s].filled, state[s] = "ACTIVE",
               kernel' = [kernel EXCEPT ![s].filled = @ \ {b}],
               poll' = [at |-> "read", ready |-> poll.ready \ {s}, buf |-> <<s, b>>]
        PROVE  OneBuf(p)'
    <3>1. KernelMoves(s) /\ kernel'[s].queued = kernel[s].queued
          /\ kernel'[s].filled = kernel[s].filled \ {b}
      BY <1>1, <2>3, <2>5, TakeIs
    <3>2. poll'.buf = <<s, b>> /\ poll'.at = "read"
      BY <2>5
    <3>3. CASE p # <<s, b>>
      <4>1. SamePoll(p)
        BY <1>1, <2>1, <3>2, <3>3 DEF SamePoll
      <4>2. p[1] # s \/ p[2] # b
        BY <1>1, <3>3
      <4>3. SameBuf(p) /\ SamePlace(p)
        BY <1>1, <1>3, <1>4, <2>1, <3>1, <4>2
        DEF SameBuf, SamePlace, Asked, Filled, Filling, Opened, InKernel, KernelMoves
      <4> QED
        BY <1>1, <1>2, <4>1, <4>3, Untouched DEF OneBuf
    <3>4. CASE p = <<s, b>>
      <4>1. p[1] = s /\ p[2] = b /\ InKernel(p)
        BY <2>5, <3>4 DEF InKernel
      <4>2. users[p] = {} /\ Ungiven(p) = 0 /\ \A u \in Users : done[<<p, u>>] = "no"
        BY <1>2, <4>1 DEF UserInv
      <4>3. b \notin kernel[s].queued
        BY <1>2, <2>5, <4>1 DEF UserInv
      <4>4. ~InKernel(p)' /\ poll'.buf = p
        BY <3>1, <3>2, <3>4, <4>1, <4>3 DEF InKernel
      <4>5. Ungiven(p)' = 0 /\ Cardinality(users[p]) = 0
        BY <3>2, <4>2, FS_EmptySet DEF Ungiven
      <4>6. refcnt[p] = 0
        BY <1>1, <1>2, <2>5, <4>1, <4>2, <4>5 DEF RefInv
      <4>7. p[2] \in setup.buffers[p[1]]
        BY <1>2, <4>1 DEF LossInv
      <4>8. UserInv(p)'
        BY <1>3, <2>1, <2>5, <4>1, <4>2, <4>4, <4>5, <1>2 DEF UserInv, InKernel
      <4>9. RefInv(p)'
        BY <1>1, <1>3, <1>4, <2>1, <2>5, <4>1, <4>2, <4>5, <4>6 DEF RefInv, StateInv, Filling
      <4>10. LossInv(p)'
        BY <1>1, <3>2, <4>4, <4>7 DEF LossInv
      <4> QED
        BY <4>8, <4>9, <4>10 DEF OneBuf
    <3> QED
      BY <3>3, <3>4
  <2> QED
    BY <2>2, <2>4, <2>5
\* Handling the frame of p.
<1>9. ASSUME UNCHANGED kernel, poll.at \in {"read", "counted", "give", "call"}, poll.buf = p
      PROVE  /\ state[p[1]] \in {"ACTIVE", "REG"}
             /\ InKernel(p)' = InKernel(p)
             /\ ~Filled(p) /\ ~Filled(p)' /\ ~Asked(p)'
             /\ (Opened(p)' => Opened(p)) /\ (Opened(p) => state[p[1]] = "ACTIVE")
             /\ users[p] \subseteq {"channel"}
             /\ poll.at # "call" =>
                  users[p] = {} /\ ~InKernel(p) /\ \A u \in Users : done[<<p, u>>] = "no"
  <2>1. state[p[1]] \in {"ACTIVE", "REG"} /\ users[p] \subseteq {"channel"}
        /\ (poll.at # "call" => users[p] = {} /\ \A u \in Users : done[<<p, u>>] = "no")
    BY <1>1, <1>9 DEF PollInv
  <2>2. ~Asked(p) /\ ~Filled(p)
    BY <1>1, <2>1 DEF StateInv, Asked, Filled, Filling
  <2>3. ~Asked(p)' /\ ~Filled(p)' /\ (Opened(p)' => Opened(p)) /\ InKernel(p)' = InKernel(p)
    BY <1>1, <1>3, <1>4, <1>9, <2>2 DEF Asked, Filled, Filling, Opened, InKernel
  <2>4. poll.at # "call" => ~InKernel(p)
    BY <1>2, <1>9 DEF UserInv
  <2> QED
    BY <2>1, <2>2, <2>3, <2>4, OpenedIs
<1>10. ASSUME poll.buf # p, UNCHANGED kernel, SameBuf(p), poll'.buf \in {poll.buf, << >>}
       PROVE  OneBuf(p)'
  <2>1. SamePlace(p) /\ SamePoll(p)
    BY <1>1, <1>3, <1>4, <1>10 DEF SamePlace, SamePoll, Asked, Filled, Filling, Opened, InKernel
  <2> QED
    BY <1>1, <1>2, <1>10, <2>1, Untouched DEF OneBuf
<1>11. CASE ReadMsmFrame
  <2>1. poll.at = "read" /\ UNCHANGED <<kernel, users, refcnt>>
    BY <1>11 DEF ReadMsmFrame
  <2>2. \/ poll'.buf = poll.buf /\ poll'.at = "counted"
        \/ poll'.buf = << >> /\ poll.buf \in lost'
    BY <1>1, <1>11 DEF ReadMsmFrame, Lose
  <2>3. CASE poll.buf # p
    BY <1>3, <1>4, <1>10, <2>1, <2>2, <2>3 DEF SameBuf
  <2>4. CASE poll.buf = p
    <3>1. Ungiven(p) = 0 /\ Ungiven(p)' = 0
      BY <1>1, <2>1, <2>2, <2>4 DEF Ungiven
    <3>2. UserInv(p)'
      BY <1>1, <1>2, <1>3, <1>9, <2>1, <2>2, <2>4, <3>1 DEF UserInv, Asked, InKernel
    <3>3. RefInv(p)'
      BY <1>2, <1>3, <1>9, <2>1, <2>4, <3>1 DEF RefInv, Filled
    <3>4. LossInv(p)'
      <4>1. p[2] \in setup.buffers[p[1]]
        BY <1>2, <2>4 DEF LossInv
      <4> QED
        BY <1>1, <2>2, <2>4, <4>1 DEF LossInv
    <3> QED
      BY <3>2, <3>3, <3>4 DEF OneBuf
  <2> QED
    BY <2>3, <2>4
<1>12. CASE CountReferences
  <2>1. poll'.buf = poll.buf /\ poll.at = "counted" /\ poll'.at = "give" /\ UNCHANGED <<kernel, users>>
        /\ refcnt' = [refcnt EXCEPT ![poll.buf] = (@ + Refs(poll.buf[1])) % 256]
    BY <1>1, <1>12 DEF CountReferences
  <2>2. CASE poll.buf # p
    <3>1. refcnt'[p] = refcnt[p]
      BY <1>1, <2>1, <2>2
    <3> QED
      BY <1>3, <1>4, <1>10, <2>1, <2>2, <3>1 DEF SameBuf
  <2>3. CASE poll.buf = p
    <3>1. Ungiven(p)' = Refs(p[1]) /\ Ungiven(p) = 0 /\ Refs(p[1]) \in 0 .. 2
      BY <1>1, <2>1, <2>3 DEF Ungiven, Refs
    <3>2. users[p] = {} /\ users'[p] = {} /\ Cardinality(users'[p]) = 0 /\ refcnt[p] = 0
      BY <1>1, <1>9, <2>1, <2>3, FS_EmptySet DEF PollInv
    <3>3. refcnt'[p] = Refs(p[1])
      <4>1. refcnt'[p] = (0 + Refs(p[1])) % 256
        BY <1>1, <2>1, <2>3, <3>2
      <4> QED
        BY <3>1, <4>1
    <3>4. UserInv(p)'
      BY <1>2, <1>3, <1>9, <2>1, <2>3, <3>2 DEF UserInv, Asked, InKernel
    <3>5. RefInv(p)'
      BY <1>3, <1>9, <2>1, <2>3, <3>1, <3>2, <3>3 DEF RefInv, Filled
    <3>6. LossInv(p)'
      <4>1. p[2] \in setup.buffers[p[1]]
        BY <1>2, <2>3 DEF LossInv
      <4> QED
        BY <1>1, <2>1, <2>3, <4>1 DEF LossInv
    <3> QED
      BY <3>4, <3>5, <3>6 DEF OneBuf
  <2> QED
    BY <2>2, <2>3
<1>13. CASE NotifyChannel
  <2>1. poll'.buf = poll.buf /\ poll.at = "give" /\ poll'.at = "call" /\ UNCHANGED <<kernel, refcnt>>
        /\ users' = [users EXCEPT ![poll.buf] = IF poll.buf[1] \in Bundled THEN @ \cup {"channel"} ELSE @]
    BY <1>1, <1>13 DEF NotifyChannel
  <2>2. CASE poll.buf # p
    <3>1. users'[p] = users[p]
      BY <1>1, <2>1, <2>2
    <3> QED
      BY <1>3, <1>4, <1>10, <2>1, <2>2, <3>1 DEF SameBuf
  <2>3. CASE poll.buf = p
    <3>1. users[p] = {} /\ users'[p] = IF p[1] \in Bundled THEN {"channel"} ELSE {}
      BY <1>1, <1>9, <2>1, <2>3
    <3>2. Cardinality(users[p]) = 0 /\ Cardinality(users'[p]) = IF p[1] \in Bundled THEN 1 ELSE 0
      BY <3>1, FS_EmptySet, FS_Singleton
    <3>3. /\ Ungiven(p) = Refs(p[1])
          /\ Ungiven(p)' = IF p[1] \in Called THEN 1 ELSE 0
      BY <1>1, <2>1, <2>3 DEF Ungiven
    <3>4. Cardinality(users'[p]) + Ungiven(p)' = Cardinality(users[p]) + Ungiven(p)
      BY <3>2, <3>3 DEF Refs
    <3>5. UserInv(p)'
      BY <1>1, <1>2, <1>3, <1>9, <2>1, <2>3, <3>1 DEF UserInv, Asked, InKernel, Users
    <3>6. RefInv(p)'
      BY <1>2, <1>3, <1>9, <2>1, <2>3, <3>4 DEF RefInv, Filled
    <3>7. LossInv(p)'
      <4>1. p[2] \in setup.buffers[p[1]]
        BY <1>2, <2>3 DEF LossInv
      <4>2. users'[p] = {} => p[1] \in Called
        BY <1>1, <3>1, Subscribers
      <4> QED
        BY <1>1, <2>1, <2>3, <4>1, <4>2 DEF LossInv
    <3> QED
      BY <3>5, <3>6, <3>7 DEF OneBuf
  <2> QED
    BY <2>2, <2>3
<1>14. CASE NotifyThread
  <2>1. poll'.buf = << >> /\ poll.at = "call" /\ poll'.at = "loop" /\ UNCHANGED <<kernel, refcnt>>
        /\ users' = [users EXCEPT ![poll.buf] = IF poll.buf[1] \in thread THEN @ \cup {"thread"} ELSE @]
    BY <1>1, <1>14 DEF NotifyThread
  <2>2. CASE poll.buf # p
    <3>1. users'[p] = users[p]
      BY <1>1, <2>1, <2>2
    <3> QED
      BY <1>3, <1>4, <1>10, <2>1, <2>2, <3>1 DEF SameBuf
  <2>3. CASE poll.buf = p
    <3>1. /\ users[p] \subseteq {"channel"} /\ state[p[1]] \in {"ACTIVE", "REG"}
          /\ users'[p] = IF p[1] \in thread THEN users[p] \cup {"thread"} ELSE users[p]
      BY <1>1, <1>9, <2>1, <2>3
    <3>2. p[1] \in thread <=> p[1] \in Called /\ state[p[1]] = "ACTIVE"
      BY <1>1 DEF StateInv
    <3>3. /\ Ungiven(p) = IF p[1] \in Called THEN 1 ELSE 0
          /\ Ungiven(p)' = 0 /\ poll'.buf # p
      BY <1>1, <2>1, <2>3 DEF Ungiven
    <3>4. Cardinality(users'[p]) = Cardinality(users[p]) + (IF p[1] \in thread THEN 1 ELSE 0)
          /\ Cardinality(users[p]) \in 0 .. 3
      <4>1. users[p] \in SUBSET Users /\ "thread" \notin users[p]
        BY <1>1, <3>1
      <4> QED
        BY <3>1, <4>1, UsersCount
    <3>5. refcnt[p] \in 0 .. 255
      BY <1>1
    <3>6. UserInv(p)'
      <4>1. p[1] \in Called => ~InKernel(p) /\ \A u \in Users : done[<<p, u>>] \notin {"queue", "ioctl"}
        BY <1>2, <3>3 DEF UserInv
      <4>2. p[1] \notin Called => users'[p] = users[p]
        BY <3>1, <3>2
      <4>3. ~(p[2] \in kernel'[p[1]].queued /\ p[2] \in kernel'[p[1]].filled)
        BY <1>2, <2>1 DEF UserInv
      <4>4. \A u \in Users : done'[<<p, u>>] \in {"queue", "ioctl"} =>
              /\ users'[p] = {} /\ Ungiven(p)' = 0 /\ ~InKernel(p)'
              /\ \A v \in Users \ {u} : done'[<<p, v>>] = "no"
        BY <1>2, <1>3, <1>9, <2>1, <2>3, <3>3, <4>1, <4>2 DEF UserInv
      <4>5. InKernel(p)' => users'[p] = {} /\ \A u \in Users : done'[<<p, u>>] = "no"
        BY <1>2, <1>3, <1>9, <2>1, <2>3, <4>1, <4>2 DEF UserInv
      <4>6. \A u \in Users : done'[<<p, u>>] = "checked" => u \in users'[p]
        BY <1>2, <1>3, <3>1 DEF UserInv
      <4>7. "thread" \in users'[p] => state'[p[1]] = "ACTIVE" /\ "app" \notin users'[p]
        BY <1>3, <3>1, <3>2
      <4>8. state'[p[1]] # "CFG" /\ ~Asked(p)'
        BY <1>3, <1>9, <2>1, <2>3, <3>1
      <4> QED
        BY <3>3, <4>3, <4>4, <4>5, <4>6, <4>7, <4>8 DEF UserInv, Asked
    <3>7. RefInv(p)'
      <4>1. CASE state[p[1]] = "ACTIVE"
        <5>1. refcnt[p] = Cardinality(users[p]) + Ungiven(p)
          BY <1>2, <4>1 DEF RefInv
        <5>2. refcnt'[p] = Cardinality(users'[p]) + Ungiven(p)'
          BY <2>1, <3>2, <3>3, <3>4, <4>1, <5>1
        <5> QED
          BY <1>3, <1>9, <2>1, <2>3, <4>1, <5>2 DEF RefInv, Filled
      <4>2. CASE state[p[1]] = "REG"
        <5>1. Cardinality(users[p]) + Ungiven(p) <= refcnt[p] /\ refcnt[p] <= 3
          BY <1>2, <4>2 DEF RefInv
        <5>2. Cardinality(users'[p]) + Ungiven(p)' <= refcnt'[p] /\ refcnt'[p] <= 3
          <6>1. Cardinality(users'[p]) = Cardinality(users[p])
            BY <3>2, <3>4, <4>2
          <6>2. Ungiven(p) \in {0, 1}
            BY <3>3
          <6>3. Cardinality(users[p]) <= refcnt[p]
            BY <3>4, <3>5, <5>1, <6>2
          <6>4. Cardinality(users[p]) + 0 <= refcnt[p]
            BY <3>4, <3>5, <6>3
          <6>5. refcnt'[p] = refcnt[p]
            BY <2>1
          <6> QED
            BY <3>3, <5>1, <6>1, <6>4, <6>5
        <5> QED
          BY <1>3, <1>9, <2>1, <2>3, <4>2, <5>2 DEF RefInv, Filled
      <4> QED
        BY <3>1, <4>1, <4>2
    <3>8. LossInv(p)'
      <4>1. p[2] \in setup.buffers[p[1]]
        BY <1>2, <2>3 DEF LossInv
      <4>2. Opened(p)' /\ users'[p] = {} => users[p] = {} /\ Opened(p) /\ p[1] \notin Called
        <5>1. users'[p] = {} => users[p] = {} /\ p[1] \notin thread
          BY <3>1
        <5>2. Opened(p)' => Opened(p) /\ state[p[1]] = "ACTIVE"
          BY <1>9, <2>1, <2>3
        <5> QED
          BY <3>2, <5>1, <5>2
      <4>3. Opened(p)' /\ users'[p] = {} =>
              InKernel(p) \/ p \in lost \/ \E u \in Users : done[<<p, u>>] # "no"
        BY <1>2, <2>1, <4>1, <4>2 DEF LossInv, Opened
      <4>4. Opened(p)' /\ users'[p] = {} =>
              InKernel(p)' \/ p \in lost' \/ \E u \in Users : done'[<<p, u>>] # "no"
        BY <1>3, <1>4, <1>9, <2>1, <2>3, <4>3
      <4> QED
        BY <1>1, <4>1, <4>4 DEF LossInv, Opened
    <3> QED
      BY <3>6, <3>7, <3>8 DEF OneBuf
  <2> QED
    BY <2>2, <2>3
<1> QED
  BY <1>6, <1>7, <1>8, <1>11, <1>12, <1>13, <1>14 DEF PollThread

\* The kernel fills a buffer, and a buffer stays accounted for.
LEMMA FillBufs ==
  ASSUME Places, Bufs, Next, NEW s \in Streams, KernelFills(s), NEW p \in Pairs
  PROVE  OneBuf(p)'
<1>1. Types /\ setup' = setup /\ p = <<p[1], p[2]>>
  BY TypesStep, PairFacts DEF Places
<1>2. UserInv(p) /\ RefInv(p) /\ LossInv(p)
  BY DEF Bufs
<1>3. PICK b \in kernel[s].queued :
        kernel' = [kernel EXCEPT ![s].queued = @ \ {b}, ![s].filled = @ \cup {b}]
  BY DEF KernelFills
<1>4. KernelMoves(s) /\ kernel'[s].queued = kernel[s].queued \ {b}
      /\ kernel'[s].filled = kernel[s].filled \cup {b}
  BY <1>1, <1>3, FillIs
<1>5. UNCHANGED <<state, caller, done, users, refcnt, lost, poll>>
  BY DEF KernelFills, bufVars, pollVars, chVars
<1>6. Current' = Current
  BY <1>1, <1>5, SameCurrent
<1>7. CASE p # <<s, b>>
  <2>1. p[1] # s \/ p[2] # b
    BY <1>1, <1>7
  <2>2. SameBuf(p) /\ SamePlace(p) /\ SamePoll(p)
    <3>1. SameBuf(p) /\ SamePoll(p)
      BY <1>5 DEF SameBuf, SamePoll
    <3>2. /\ p[2] \in kernel'[p[1]].queued <=> p[2] \in kernel[p[1]].queued
          /\ p[2] \in kernel'[p[1]].filled <=> p[2] \in kernel[p[1]].filled
          /\ kernel'[p[1]].streaming = kernel[p[1]].streaming
      <4>1. p[1] \in Streams
        BY PairFacts
      <4> QED
        BY <1>4, <2>1, <4>1 DEF KernelMoves
    <3> QED
      BY <1>5, <1>6, <3>1, <3>2 DEF SamePlace, Asked, Filled, Filling, Opened, InKernel
  <2> QED
    BY <1>1, <1>2, <2>2, Untouched DEF OneBuf
<1>8. CASE p = <<s, b>>
  <2>1. p[1] = s /\ p[2] = b /\ InKernel(p) /\ p[2] \in kernel[p[1]].queued
    BY <1>8 DEF InKernel
  <2>2. /\ InKernel(p)' /\ p[2] \notin kernel'[p[1]].queued
        /\ kernel'[p[1]].streaming = kernel[p[1]].streaming
    BY <1>4, <2>1 DEF InKernel, KernelMoves
  <2>3. Ungiven(p)' = Ungiven(p)
    BY <1>5 DEF Ungiven, Refs
  <2>4. UserInv(p)'
    BY <1>2, <1>5, <1>6, <2>1, <2>2, <2>3 DEF UserInv
  <2>5. RefInv(p)'
    BY <1>1, <1>2, <1>5, <1>6, <2>1, <2>2, <2>3 DEF RefInv, Filling
  <2>6. LossInv(p)'
    BY <1>1, <1>2, <1>5, <1>6, <2>1, <2>2 DEF LossInv
  <2> QED
    BY <2>4, <2>5, <2>6 DEF OneBuf
<1> QED
  BY <1>7, <1>8

\* A user goes on in its mm_stream_buf_done().
LEMMA DoneIs ==
  ASSUME Types, NEW p \in Pairs, NEW u \in Users, NEW step, At(p, u, step)
  PROVE  done'[<<p, u>>] = step
<1>1. done' = [done EXCEPT ![<<p, u>>] = step]
  BY DEF At
<1> QED
  BY <1>1 DEF Types, BufTypes

\* What a user's step leaves of the other buffers, and of its own one.
LEMMA UserMoves ==
  ASSUME Places, Bufs, Next, NEW p \in Pairs, NEW u \in Users,
         (Dispatch(p) /\ u = "thread") \/ QBuf(p, u) \/ Finish(p, u)
  PROVE  /\ UNCHANGED <<setup, state, caller, thread, poll>> /\ Current' = Current
         /\ Ungiven(p)' = Ungiven(p)
         /\ \A v \in Users \ {u} : done'[<<p, v>>] = done[<<p, v>>]
         /\ \A q \in Pairs \ {p} : SameBuf(q) /\ SamePoll(q) /\ (InKernel(q)' <=> InKernel(q))
         /\ \A q \in Pairs \ {p} : OneBuf(q)'
         /\ ~QBufIoctl(p, u) => kernel' = kernel
         /\ ~Asked(p) /\ ~Asked(p)' /\ ~Filled(p)'
<1>1. /\ Types /\ setup' = setup /\ StateInv /\ CallInv
      /\ refcnt \in [Pairs -> 0 .. 255] /\ users \in [Pairs -> SUBSET Users]
  BY TypesStep DEF Places, Types, BufTypes
<1>2. UNCHANGED <<state, caller, thread, poll>>
  BY DEF Dispatch, QBuf, Finish, BufDone, QBufCounts, QBufIoctl, pollVars, chVars
<1>3. Current' = Current
  BY <1>1, <1>2, SameCurrent
<1>4. Ungiven(p)' = Ungiven(p)
  BY <1>2 DEF Ungiven, Refs
<1>5. \A q \in Pairs, v \in Users : q # p \/ v # u => done'[<<q, v>>] = done[<<q, v>>]
  <2>1. CASE done' = done
    BY <2>1
  <2>2. CASE \E step : At(p, u, step)
    <3>1. PICK step : done' = [done EXCEPT ![<<p, u>>] = step]
      BY <2>2 DEF At
    <3> QED
      BY <1>1, <3>1, AtIs
  <2> QED
    BY <2>1, <2>2 DEF Dispatch, QBuf, Finish, BufDone, QBufCounts, QBufIoctl
<1>6. ~QBufIoctl(p, u) => kernel' = kernel
  BY DEF Dispatch, QBuf, Finish, BufDone, QBufCounts
<1>7. ASSUME NEW q \in Pairs \ {p}
      PROVE  OneBuf(q)' /\ SameBuf(q) /\ SamePoll(q) /\ (InKernel(q)' <=> InKernel(q))
  <2>1. refcnt'[q] = refcnt[q] /\ users'[q] = users[q]
    <3>1. refcnt' = refcnt \/ \E n : refcnt' = [refcnt EXCEPT ![p] = n]
      BY DEF Dispatch, QBuf, Finish, BufDone, QBufCounts, QBufIoctl
    <3>2. users' = users \/ \E S : users' = [users EXCEPT ![p] = S]
      BY DEF Dispatch, QBuf, Finish, BufDone, QBufCounts, QBufIoctl, Drop
    <3> QED
      BY <1>1, <3>1, <3>2
  <2>2. SameBuf(q) /\ SamePoll(q)
    <3>1. q \in lost => q \in lost'
      BY DEF Dispatch, QBuf, Finish, BufDone, QBufCounts, QBufIoctl, Lose
    <3> QED
      BY <1>2, <1>5, <2>1, <3>1 DEF SameBuf, SamePoll
  <2>3. SamePlace(q) /\ (InKernel(q)' <=> InKernel(q))
    <3>1. CASE kernel' = kernel
      BY <1>2, <1>3, <3>1 DEF SamePlace, Asked, Filled, Filling, Opened, InKernel
    <3>2. CASE kernel' = [kernel EXCEPT ![p[1]].queued = @ \cup {p[2]}]
      <4>1. /\ p[1] \in Streams /\ p[2] \in Buffers /\ q[1] \in Streams
            /\ q[1] # p[1] \/ q[2] # p[2]
        <5>1. p = <<p[1], p[2]>> /\ q = <<q[1], q[2]>>
          BY PairFacts
        <5> QED
          BY <5>1, PairFacts
      <4>2. KernelMoves(p[1]) /\ kernel'[p[1]].queued = kernel[p[1]].queued \cup {p[2]}
            /\ kernel'[p[1]].filled = kernel[p[1]].filled
        BY <1>1, <3>2, <4>1, QueueIs
      <4>3. /\ q[2] \in kernel'[q[1]].queued <=> q[2] \in kernel[q[1]].queued
            /\ q[2] \in kernel'[q[1]].filled <=> q[2] \in kernel[q[1]].filled
            /\ kernel'[q[1]].streaming = kernel[q[1]].streaming
        BY <4>1, <4>2 DEF KernelMoves
      <4> QED
        BY <1>2, <1>3, <4>3 DEF SamePlace, Asked, Filled, Filling, Opened, InKernel
    <3> QED
      BY <1>6, <3>1, <3>2 DEF QBufIoctl
  <2>4. OneBuf(q)
    BY DEF Bufs, OneBuf
  <2> QED
    BY <1>1, <2>2, <2>3, <2>4, Untouched
<1>8. ~Asked(p)
  <2>1. UserInv(p) /\ "thread" \in Users
    BY DEF Bufs, Users
  <2>2. CASE Dispatch(p)
    BY <1>1, <2>1, <2>2 DEF Dispatch, UserInv, Asked, StateInv
  <2>3. CASE Finish(p, u)
    BY <2>1, <2>3 DEF Finish, BufDone, QBufCounts, QBufIoctl, UserInv, Asked
  <2>4. CASE QBuf(p, u)
    <3>1. ASSUME Asked(p) PROVE FALSE
      <4>1. state[p[1]] = "BUFFED" /\ caller.at \in {"request", "queue", "ioctl"}
        BY <1>1, <3>1 DEF Asked, StateInv
      <4>2. caller.at \in (IF caller.op = "start" THEN Starting ELSE Stopping)
        BY <1>1, <4>1, CalledIs
      <4>3. caller.op = "start"
        BY <4>1, <4>2 DEF Stopping
      <4> QED
        BY <2>4, <4>1, <4>3 DEF QBuf
    <3> QED
      BY <3>1
  <2> QED
    BY <2>2, <2>3, <2>4
<1>9. ~Asked(p)' /\ ~Filled(p)'
  BY <1>2, <1>3, <1>8 DEF Asked, Filled, Filling
<1> QED
  BY <1>1, <1>2, <1>3, <1>4, <1>5, <1>6, <1>7, <1>8, <1>9

\* The stream's thread calls back, and the owner of the callback is a user more.
LEMMA DispatchBufs ==
  ASSUME Places, Bufs, Next, NEW p \in Pairs, Dispatch(p)
  PROVE  OneBuf(p)'
<1>1. /\ Types /\ KernelInv /\ "thread" \in Users /\ "app" \in Users
      /\ refcnt \in [Pairs -> 0 .. 255] /\ users \in [Pairs -> SUBSET Users]
  BY DEF Places, Types, BufTypes, Users
<1>2. UserInv(p) /\ RefInv(p) /\ LossInv(p)
  BY DEF Bufs
<1>3. /\ UNCHANGED <<setup, state, caller, thread, poll>> /\ Current' = Current
      /\ Ungiven(p)' = Ungiven(p) /\ kernel' = kernel
      /\ \A v \in Users \ {"thread"} : done'[<<p, v>>] = done[<<p, v>>]
      /\ ~Asked(p)' /\ ~Filled(p)'
  BY <1>1, UserMoves DEF Dispatch
<1>4. done'[<<p, "thread">>] = "checked"
  <2>1. At(p, "thread", "checked")
    BY DEF Dispatch
  <2> QED
    BY <1>1, <2>1, DoneIs
<1>5. "thread" \in users[p] /\ "app" \notin users[p] /\ state[p[1]] = "ACTIVE"
  BY <1>2 DEF Dispatch, UserInv
<1>6. users'[p] = users[p] \cup {"app"}
  BY <1>1 DEF Dispatch
<1>7. /\ refcnt[p] = Cardinality(users[p]) + Ungiven(p) /\ Cardinality(users[p]) + Ungiven(p) <= 3
      /\ Cardinality(users[p]) \in Nat /\ Ungiven(p) \in Nat
      /\ Cardinality(users'[p]) = Cardinality(users[p]) + 1
  <2>1. Cardinality(users[p] \cup {"app"}) = Cardinality(users[p]) + 1
    BY <1>1, <1>5, UsersCount
  <2> QED
    BY <1>1, <1>2, <1>5, <1>6, <2>1, UngivenIs, UserTypes DEF RefInv
<1>8. refcnt'[p] = refcnt[p] + 1
  <2>1. refcnt'[p] = (refcnt[p] + 1) % 256
    BY <1>1 DEF Dispatch
  <2>2. refcnt[p] \in 0 .. 3
    BY <1>1, <1>7
  <2> QED
    BY <2>1, <2>2
<1>9. ~InKernel(p)' /\ \A v \in Users : done[<<p, v>>] \notin {"queue", "ioctl"}
  BY <1>2, <1>3, <1>5 DEF UserInv, InKernel
<1>10. UserInv(p)'
  <2>1. \A v \in Users : done'[<<p, v>>] = "checked" => v \in users'[p]
    BY <1>2, <1>3, <1>5, <1>6 DEF UserInv
  <2>2. \A v \in Users : done'[<<p, v>>] \notin {"queue", "ioctl"}
    BY <1>3, <1>4, <1>9
  <2>3. ~(p[2] \in kernel'[p[1]].queued /\ p[2] \in kernel'[p[1]].filled)
    BY <1>2, <1>3 DEF UserInv
  <2> QED
    BY <1>3, <1>4, <1>5, <1>9, <2>1, <2>2, <2>3 DEF UserInv, Asked
<1>11. RefInv(p)'
  <2>1. refcnt'[p] = Cardinality(users'[p]) + Ungiven(p)'
    BY <1>3, <1>7, <1>8
  <2> QED
    BY <1>3, <1>5, <2>1 DEF RefInv, Filled
<1>12. LossInv(p)'
  <2>1. p[2] \in setup.buffers[p[1]] /\ users'[p] # {}
    BY <1>2, <1>5, <1>6 DEF LossInv
  <2> QED
    BY <1>3, <2>1 DEF LossInv
<1> QED
  BY <1>10, <1>11, <1>12 DEF OneBuf

\* A user begins to give its buffer back, and nobody else's place changes.
LEMMA QBufBufs ==
  ASSUME Places, Bufs, Next, NEW p \in Pairs, NEW u \in Users, QBuf(p, u)
  PROVE  OneBuf(p)'
<1>1. /\ Types /\ KernelInv
      /\ refcnt \in [Pairs -> 0 .. 255] /\ users \in [Pairs -> SUBSET Users]
  BY DEF Places, Types, BufTypes
<1>2. UserInv(p) /\ RefInv(p) /\ LossInv(p)
  BY DEF Bufs
<1>3. /\ UNCHANGED <<setup, state, caller, thread, poll>> /\ Current' = Current
      /\ Ungiven(p)' = Ungiven(p) /\ kernel' = kernel /\ refcnt' = refcnt
      /\ \A v \in Users \ {u} : done'[<<p, v>>] = done[<<p, v>>]
      /\ ~Asked(p)' /\ ~Filled(p)'
  BY UserMoves DEF QBuf
<1>4. /\ u \in users[p] /\ u # "thread" /\ done[<<p, u>>] = "no" /\ ~InKernel(p)
      /\ \A v \in Users : done[<<p, v>>] \notin {"queue", "ioctl"}
      /\ p[2] \in setup.buffers[p[1]] /\ state[p[1]] # "CFG"
  BY <1>2 DEF QBuf, UserInv, LossInv
<1>5. ~InKernel(p)' /\ ~(p[2] \in kernel'[p[1]].queued /\ p[2] \in kernel'[p[1]].filled)
  BY <1>2, <1>3, <1>4 DEF InKernel, UserInv
<1>6. CASE At(p, u, "checked") /\ UNCHANGED users /\ state[p[1]] = "ACTIVE"
  <2>1. done'[<<p, u>>] = "checked" /\ users'[p] = users[p]
    BY <1>1, <1>6, DoneIs
  <2>2. UserInv(p)'
    <3>1. \A v \in Users : done'[<<p, v>>] = "checked" => v \in users'[p]
      BY <1>2, <1>3, <1>4, <2>1 DEF UserInv
    <3>2. \A v \in Users : done'[<<p, v>>] \notin {"queue", "ioctl"}
      BY <1>3, <1>4, <2>1
    <3>3. "thread" \in users'[p] => (done'[<<p, "thread">>] = "no" => "app" \notin users'[p])
      <4>1. "thread" \in Users
        BY DEF Users
      <4> QED
        BY <1>2, <1>3, <1>4, <2>1, <4>1 DEF UserInv
    <3> QED
      BY <1>3, <1>5, <1>6, <3>1, <3>2, <3>3 DEF UserInv, Asked
  <2>3. RefInv(p)'
    BY <1>2, <1>3, <1>6, <2>1 DEF RefInv, Filled
  <2>4. LossInv(p)'
    BY <1>3, <1>4, <2>1 DEF LossInv
  <2> QED
    BY <2>2, <2>3, <2>4 DEF OneBuf
<1>7. CASE Drop(p, u) /\ UNCHANGED done /\ state[p[1]] # "ACTIVE"
  <2>1. users'[p] = users[p] \ {u}
    BY <1>1, <1>7 DEF Drop
  <2>2. "thread" \notin users[p]
    BY <1>2, <1>7 DEF UserInv
  <2>3. UserInv(p)'
    <3>1. \A v \in Users : done'[<<p, v>>] = "checked" => v \in users'[p]
      BY <1>2, <1>4, <1>7, <2>1 DEF UserInv
    <3>2. \A v \in Users : done'[<<p, v>>] \notin {"queue", "ioctl"}
      BY <1>4, <1>7
    <3> QED
      BY <1>3, <1>4, <1>5, <2>1, <2>2, <3>1, <3>2 DEF UserInv, Asked
  <2>4. RefInv(p)'
    <3>1. Cardinality(users'[p]) = Cardinality(users[p]) - 1 /\ Cardinality(users[p]) \in 0 .. 3
          /\ Ungiven(p) \in 0 .. 2 /\ refcnt[p] \in 0 .. 255
      BY <1>1, <1>4, <2>1, UsersCount, UngivenIs
    <3>2. state'[p[1]] = "REG" =>
            Cardinality(users'[p]) + Ungiven(p)' <= refcnt'[p] /\ refcnt'[p] <= 3
      <4>1. state[p[1]] = "REG" => Cardinality(users[p]) + Ungiven(p) <= refcnt[p] /\ refcnt[p] <= 3
        BY <1>2 DEF RefInv
      <4> QED
        BY <1>3, <3>1, <4>1
    <3>3. state'[p[1]] = "BUFFED" /\ (\E v \in Users : done'[<<p, v>>] = "checked") =>
            refcnt'[p] = 0 \/ refcnt'[p] >= 253 + Cardinality(users'[p])
      <4>1. state[p[1]] = "BUFFED" /\ (\E v \in Users : done[<<p, v>>] = "checked") =>
              refcnt[p] = 0 \/ refcnt[p] >= 253 + Cardinality(users[p])
        BY <1>2 DEF RefInv
      <4> QED
        BY <1>3, <1>7, <3>1, <4>1
    <3> QED
      BY <1>3, <1>7, <3>2, <3>3 DEF RefInv, Filled
  <2>5. LossInv(p)'
    <3>1. ~Opened(p) /\ ~Opened(p)'
      BY <1>3, <1>7, OpenedIs DEF Opened
    <3> QED
      BY <1>3, <1>4, <3>1 DEF LossInv, Opened
  <2> QED
    BY <2>3, <2>4, <2>5 DEF OneBuf
<1>8. state[p[1]] = "ACTIVE" => refcnt[p] > 0
  <2>1. Cardinality(users[p]) \in 0 .. 3 /\ Cardinality(users[p]) # 0 /\ Ungiven(p) \in 0 .. 2
    BY <1>1, <1>4, UserTypes, UngivenIs
  <2> QED
    BY <1>2, <2>1 DEF RefInv
<1> QED
  BY <1>6, <1>7, <1>8 DEF QBuf

\* A user's reference is dropped; the last user goes on to queue the buffer.
LEMMA BufDoneBufs ==
  ASSUME Places, Bufs, Next, NEW p \in Pairs, NEW u \in Users, BufDone(p, u)
  PROVE  OneBuf(p)'
<1>1. /\ Types /\ KernelInv /\ "thread" \in Users
      /\ refcnt \in [Pairs -> 0 .. 255] /\ users \in [Pairs -> SUBSET Users]
      /\ state \in [Streams -> {"CFG", "BUFFED", "REG", "ACTIVE"}] /\ p[1] \in Streams
  BY PairFacts DEF Places, Types, BufTypes, ChTypes, Users
<1>2. UserInv(p) /\ RefInv(p) /\ LossInv(p)
  BY DEF Bufs
<1>3. /\ UNCHANGED <<setup, state, caller, thread, poll>> /\ Current' = Current
      /\ Ungiven(p)' = Ungiven(p) /\ kernel' = kernel
      /\ \A v \in Users \ {u} : done'[<<p, v>>] = done[<<p, v>>]
      /\ ~Asked(p)' /\ ~Filled(p)'
  BY UserMoves DEF Finish, BufDone
<1>4. /\ done[<<p, u>>] = "checked" /\ u \in users[p] /\ ~InKernel(p)
      /\ \A v \in Users : done[<<p, v>>] \notin {"queue", "ioctl"}
      /\ p[2] \in setup.buffers[p[1]] /\ state[p[1]] # "CFG"
  BY <1>2 DEF BufDone, UserInv, LossInv
<1>5. ~InKernel(p)' /\ ~(p[2] \in kernel'[p[1]].queued /\ p[2] \in kernel'[p[1]].filled)
  BY <1>2, <1>3, <1>4 DEF InKernel, UserInv
<1>6. done'[<<p, u>>] = IF refcnt[p] = 1 THEN "queue" ELSE "no"
  <2>1. At(p, u, IF refcnt[p] = 1 THEN "queue" ELSE "no")
    BY DEF BufDone
  <2> QED
    BY <1>1, <2>1, DoneIs
<1>7. users'[p] = users[p] \ {u}
  BY <1>1 DEF BufDone, Drop
<1>8. /\ Cardinality(users'[p]) = Cardinality(users[p]) - 1 /\ Cardinality(users[p]) \in 1 .. 3
      /\ Ungiven(p) \in 0 .. 2 /\ refcnt[p] \in 0 .. 255
  <2>1. Cardinality(users[p] \ {u}) = Cardinality(users[p]) - 1 /\ Cardinality(users[p]) \in 0 .. 3
        /\ Cardinality(users[p]) # 0
    BY <1>1, <1>4, UsersCount
  <2> QED
    BY <1>1, <1>7, <2>1, UngivenIs
<1>9. refcnt'[p] = IF refcnt[p] = 0 THEN 255 ELSE refcnt[p] - 1
  <2>1. refcnt'[p] = (refcnt[p] + 255) % 256
    BY <1>1 DEF BufDone
  <2>2. 255 \in 0 .. 255 /\ refcnt[p] \in 0 .. 255
    BY <1>8
  <2>3. \A n \in 0 .. 255 :
          (n + 255) % 256 = IF n + 255 > 255 THEN n + 255 - 256 ELSE n + 255
    BY <2>2, Bytes, ZenonT(20)
  <2> QED
    BY <2>1, <2>2, <2>3
<1>10. /\ state[p[1]] = "ACTIVE" => refcnt[p] = Cardinality(users[p]) + Ungiven(p)
       /\ state[p[1]] = "REG" => Cardinality(users[p]) + Ungiven(p) <= refcnt[p] /\ refcnt[p] <= 3
       /\ state[p[1]] = "BUFFED" => refcnt[p] = 0 \/ refcnt[p] >= 253 + Cardinality(users[p])
  BY <1>2, <1>4 DEF RefInv
<1>11. refcnt[p] = 1 => users[p] = {u} /\ Ungiven(p) = 0
  <2>1. refcnt[p] = 1 => Cardinality(users[p]) <= 1 /\ Ungiven(p) = 0
    BY <1>1, <1>4, <1>8, <1>10
  <2> QED
    BY <1>1, <1>4, <2>1, SingleUser
<1>12. UserInv(p)'
  <2>1. \A v \in Users : done'[<<p, v>>] = "checked" => v \in users'[p]
    BY <1>2, <1>3, <1>6, <1>7 DEF UserInv
  <2>2. \A v \in Users : done'[<<p, v>>] \in {"queue", "ioctl"} =>
          /\ users'[p] = {} /\ Ungiven(p)' = 0 /\ ~InKernel(p)'
          /\ \A w \in Users \ {v} : done'[<<p, w>>] = "no"
    <3>1. ASSUME NEW v \in Users, done'[<<p, v>>] \in {"queue", "ioctl"}
          PROVE  v = u /\ refcnt[p] = 1
      BY <1>3, <1>4, <1>6, <3>1
    <3>2. refcnt[p] = 1 => \A w \in Users \ {u} : done'[<<p, w>>] = "no"
      <4>1. \A w \in Users : done[<<p, w>>] \in {"no", "checked", "queue", "ioctl"}
        BY <1>1, UserTypes
      <4> QED
        BY <1>2, <1>3, <1>4, <1>11, <4>1 DEF UserInv
    <3> QED
      BY <1>3, <1>5, <1>7, <1>11, <3>1, <3>2
  <2>3. "thread" \in users'[p] =>
          state'[p[1]] = "ACTIVE" /\ (done'[<<p, "thread">>] = "no" => "app" \notin users'[p])
    <3>1. "thread" \in users'[p] => "thread" \in users[p] /\ done'[<<p, "thread">>] = done[<<p, "thread">>]
      BY <1>1, <1>3, <1>7
    <3> QED
      BY <1>2, <1>3, <1>7, <3>1 DEF UserInv
  <2> QED
    BY <1>3, <1>4, <1>5, <2>1, <2>2, <2>3 DEF UserInv, Asked
<1>13. RefInv(p)'
  <2>1. state[p[1]] = "ACTIVE" => refcnt'[p] = Cardinality(users'[p]) + Ungiven(p)'
    BY <1>3, <1>8, <1>9, <1>10
  <2>2. state[p[1]] = "REG" => Cardinality(users'[p]) + Ungiven(p)' <= refcnt'[p] /\ refcnt'[p] <= 3
    BY <1>3, <1>8, <1>9, <1>10
  <2>3. state[p[1]] = "BUFFED" => refcnt'[p] = 0 \/ refcnt'[p] >= 253 + Cardinality(users'[p])
    BY <1>8, <1>9, <1>10
  <2> QED
    BY <1>3, <2>1, <2>2, <2>3 DEF RefInv, Filled
<1>14. LossInv(p)'
  <2>1. ASSUME Opened(p)', users'[p] = {}
        PROVE  \/ poll.buf = p /\ (poll.at # "call" \/ p[1] \in Called)
               \/ done'[<<p, u>>] # "no"
    <3>1. state[p[1]] = "ACTIVE"
      BY <1>3, <2>1, OpenedIs DEF Opened
    <3>2. Cardinality(users'[p]) = 0
      BY <2>1, FS_EmptySet
    <3>3. refcnt[p] = 1 + Ungiven(p)
      BY <1>8, <1>10, <3>1, <3>2
    <3>4. CASE Ungiven(p) = 0
      BY <1>6, <3>3, <3>4
    <3>5. CASE Ungiven(p) # 0
      BY <3>5, UngivenIs
    <3> QED
      BY <3>4, <3>5
  <2> QED
    BY <1>3, <1>4, <2>1 DEF LossInv, Opened
<1> QED
  BY <1>12, <1>13, <1>14 DEF OneBuf

\* The last user queues the buffer, in two steps.
LEMMA QueueBufs ==
  ASSUME Places, Bufs, Next, NEW p \in Pairs, NEW u \in Users,
         QBufCounts(p, u) \/ QBufIoctl(p, u)
  PROVE  OneBuf(p)'
<1>1. Types /\ KernelInv /\ PollInv /\ p[1] \in Streams /\ p[2] \in Buffers /\ p # << >>
  BY PairFacts DEF Places
<1>2. UserInv(p) /\ RefInv(p) /\ LossInv(p)
  BY DEF Bufs
<1>3. /\ UNCHANGED <<setup, state, caller, thread, poll, users, refcnt>> /\ Current' = Current
      /\ Ungiven(p)' = Ungiven(p) /\ (~QBufIoctl(p, u) => kernel' = kernel)
      /\ \A v \in Users \ {u} : done'[<<p, v>>] = done[<<p, v>>]
      /\ ~Asked(p)' /\ ~Filled(p)'
  BY UserMoves DEF Finish, QBufCounts, QBufIoctl
<1>4. /\ done[<<p, u>>] \in {"queue", "ioctl"} /\ users[p] = {} /\ Ungiven(p) = 0 /\ ~InKernel(p)
      /\ \A v \in Users \ {u} : done'[<<p, v>>] = "no"
      /\ p[2] \in setup.buffers[p[1]] /\ state[p[1]] # "CFG"
  BY <1>2, <1>3 DEF QBufCounts, QBufIoctl, UserInv, LossInv
<1>5. (\A v \in Users : done'[<<p, v>>] # "checked") => RefInv(p)'
  BY <1>2, <1>3 DEF RefInv, Filled
<1>6. CASE QBufCounts(p, u)
  <2>1. kernel' = kernel /\ (At(p, u, "ioctl") \/ (At(p, u, "no") /\ p \in lost'))
    BY <1>6 DEF QBufCounts, Lose
  <2>2. done'[<<p, u>>] = "ioctl" \/ (done'[<<p, u>>] = "no" /\ p \in lost')
    BY <1>1, <2>1, DoneIs
  <2>3. ~InKernel(p)' /\ ~(p[2] \in kernel'[p[1]].queued /\ p[2] \in kernel'[p[1]].filled)
    BY <1>4, <2>1 DEF InKernel
  <2>4. UserInv(p)'
    BY <1>3, <1>4, <2>2, <2>3 DEF UserInv, Asked
  <2>5. LossInv(p)'
    BY <1>3, <1>4, <2>2 DEF LossInv
  <2> QED
    <3>1. \A v \in Users : done'[<<p, v>>] # "checked"
      BY <1>4, <2>2
    <3> QED
      BY <1>5, <2>4, <2>5, <3>1 DEF OneBuf
<1>7. CASE QBufIoctl(p, u)
  <2>1. \A v \in Users : done'[<<p, v>>] = "no"
    <3>1. done'[<<p, u>>] = "no"
      <4>1. At(p, u, "no")
        BY <1>7 DEF QBufIoctl
      <4> QED
        BY <1>1, <4>1, DoneIs
    <3> QED
      BY <1>4, <3>1
  <2>2. poll.buf = p => poll.at = "call"
    BY <1>1, <1>4 DEF PollInv
  <2>3. CASE kernel[p[1]].requested /\ kernel' = [kernel EXCEPT ![p[1]].queued = @ \cup {p[2]}]
    <3>1. KernelMoves(p[1]) /\ kernel'[p[1]].queued = kernel[p[1]].queued \cup {p[2]}
          /\ kernel'[p[1]].filled = kernel[p[1]].filled
      BY <1>1, <2>3, QueueIs
    <3>2. InKernel(p)' /\ p[2] \notin kernel'[p[1]].filled
      BY <1>4, <3>1 DEF InKernel
    <3>3. UserInv(p)'
      BY <1>3, <1>4, <2>1, <2>2, <3>2 DEF UserInv, Asked
    <3>4. RefInv(p)'
      BY <1>5, <2>1
    <3>5. LossInv(p)'
      BY <1>3, <1>4, <3>2 DEF LossInv
    <3> QED
      BY <3>3, <3>4, <3>5 DEF OneBuf
  <2>4. CASE Lose(p) /\ UNCHANGED kernel
    <3>1. ~InKernel(p)' /\ ~(p[2] \in kernel'[p[1]].queued /\ p[2] \in kernel'[p[1]].filled)
      BY <1>4, <2>4 DEF InKernel
    <3>2. UserInv(p)'
      BY <1>3, <1>4, <2>1, <2>2, <3>1 DEF UserInv, Asked
    <3>3. LossInv(p)'
      BY <1>3, <1>4, <2>4 DEF LossInv, Lose
    <3> QED
      BY <1>5, <2>1, <3>2, <3>3 DEF OneBuf
  <2> QED
    BY <1>7, <2>3, <2>4 DEF QBufIoctl
<1> QED
  BY <1>6, <1>7

\* Every step keeps the accounts of every buffer.
LEMMA BufsStep ==
  ASSUME Places, Bufs, Next
  PROVE  Bufs'
<1> SUFFICES ASSUME NEW q \in Pairs PROVE OneBuf(q)'
  BY DEF Bufs, OneBuf
<1>1. CASE Start \/ Stop
  <2>1. /\ UNCHANGED <<setup, state, bufVars, kernel, pollVars>> /\ caller'.at \in {"get", "off"}
        /\ caller.at = "none"
    BY <1>1 DEF Start, Stop, NoCall
  <2>2. SameBuf(q) /\ ~Asked(q)' /\ ~Filled(q)' /\ (Opened(q)' => Opened(q))
    BY <2>1 DEF SameBuf, Asked, Filled, Filling, Opened, bufVars
  <2> QED
    BY <2>1, <2>2, OtherStream DEF pollVars
<1>2. ASSUME NEW p \in Pairs, Dispatch(p)
      PROVE  OneBuf(q)'
  <2>1. "thread" \in Users
    BY DEF Users
  <2>2. \A r \in Pairs \ {p} : OneBuf(r)'
    BY <1>2, <2>1, UserMoves
  <2>3. OneBuf(p)'
    BY <1>2, DispatchBufs
  <2> QED
    BY <2>2, <2>3
<1>3. ASSUME NEW p \in Pairs, NEW u \in Users, QBuf(p, u) \/ Finish(p, u)
      PROVE  OneBuf(q)'
  <2>1. \A r \in Pairs \ {p} : OneBuf(r)'
    BY <1>3, UserMoves
  <2>2. OneBuf(p)'
    BY <1>3, QBufBufs, BufDoneBufs, QueueBufs DEF Finish
  <2> QED
    BY <2>1, <2>2
<1> QED
  BY <1>1, <1>2, <1>3, CallBufs, PollBufs, FillBufs DEF Next

-----------------------------------------------------------------------------
(* The counter.                                                            *)

\* Sizes of sets of buffers.
LEMMA Sizes ==
  ASSUME NEW S \in SUBSET Buffers
  PROVE  /\ IsFiniteSet(S) /\ Cardinality(S) \in Nat /\ Cardinality(Buffers) \in Nat
         /\ Cardinality(S) <= Cardinality(Buffers)
         /\ \A R \in SUBSET S : Cardinality(R) <= Cardinality(S)
         /\ \A b : Cardinality(S \cup {b}) = IF b \in S THEN Cardinality(S) ELSE Cardinality(S) + 1
         /\ \A b : Cardinality(S \ {b}) = IF b \in S THEN Cardinality(S) - 1 ELSE Cardinality(S)
<1>1. IsFiniteSet(Buffers)
  BY StreamsAssumption
<1>2. IsFiniteSet(S) /\ Cardinality(S) <= Cardinality(Buffers)
  BY <1>1, FS_Subset
<1>3. Cardinality(S) \in Nat /\ Cardinality(Buffers) \in Nat
  BY <1>1, <1>2, FS_CardinalityType
<1>4. \A R \in SUBSET S : Cardinality(R) <= Cardinality(S)
  BY <1>2, FS_Subset
<1>5. \A b : Cardinality(S \cup {b}) = IF b \in S THEN Cardinality(S) ELSE Cardinality(S) + 1
  BY <1>2, FS_AddElement
<1>6. \A b : Cardinality(S \ {b}) = IF b \in S THEN Cardinality(S) - 1 ELSE Cardinality(S)
  BY <1>2, FS_RemoveElement
<1> QED
  BY <1>2, <1>3, <1>4, <1>5, <1>6

\* The sets a counter is compared with are sets of buffers.
LEMMA Sets ==
  ASSUME NEW s \in Streams
  PROVE  /\ Counted(s) \in SUBSET Buffers /\ Countable(s) \in SUBSET Buffers
         /\ Counted(s)' \in SUBSET Buffers /\ Countable(s)' \in SUBSET Buffers
         /\ \A b \in Buffers : <<s, b>> \in Pairs
BY DEF Counted, Countable, Pairs

\* What the counter counts is out of everybody's hands.
LEMMA CountedIsCountable ==
  ASSUME Places, Bufs, NEW p \in Pairs, IsCounted(p)
  PROVE  IsCountable(p)
<1>1. /\ Types /\ CallInv /\ KernelInv /\ PollInv /\ p[1] \in Streams /\ p # << >>
      /\ UserInv(p) /\ RefInv(p)
  BY PairFacts DEF Places, Bufs
<1>2. CASE InKernel(p)
  BY <1>1, <1>2 DEF UserInv, IsCountable
<1>3. ASSUME NEW u \in Users, done[<<p, u>>] = "ioctl"
      PROVE  IsCountable(p)
  <2>1. users[p] = {} /\ Ungiven(p) = 0 /\ \A v \in Users : done[<<p, v>>] # "queue"
    BY <1>1, <1>3 DEF UserInv
  <2>2. ~(poll.buf = p /\ poll.at = "counted")
    BY <1>1, <1>3 DEF PollInv
  <2> QED
    BY <2>1, <2>2 DEF IsCountable
<1>4. CASE poll.buf = p /\ poll.at = "read"
  BY <1>1, <1>4 DEF PollInv, IsCountable, Ungiven
<1>5. CASE Placing(p)
  <2>1. Filling /\ Current = p[1] /\ p[2] \in ToQueue
    BY <1>1, <1>5, NextBufIs DEF Placing, Filling, KernelInv
  <2>2. users[p] = {}
    BY <1>1, <2>1 DEF RefInv, ToQueue
  <2>3. poll.buf # p /\ \A u \in Users : done[<<p, u>>] = "no"
    BY <1>1, <2>1, FillingAlone
  <2> QED
    BY <2>2, <2>3 DEF IsCountable, Ungiven
<1> QED
  BY <1>1, <1>2, <1>3, <1>4, <1>5 DEF IsCounted

\* So the counter's lower bound is below its upper bound.
LEMMA CountedWithin ==
  ASSUME Places, Bufs, NEW s \in Streams
  PROVE  Counted(s) \subseteq Countable(s)
<1> SUFFICES ASSUME NEW b \in Buffers, IsCounted(<<s, b>>) PROVE IsCountable(<<s, b>>)
  BY DEF Counted, Countable
<1>1. <<s, b>> \in Pairs
  BY DEF Pairs
<1> HIDE DEF Pairs
<1> QED
  BY <1>1, CountedIsCountable

\* A step that counts nothing, one that counts a buffer and one that counts it no more.
Fewer(s, S) ==
  \A b \in Buffers \ S :
    (IsCounted(<<s, b>>)' => IsCounted(<<s, b>>)) /\ (IsCountable(<<s, b>>) => IsCountable(<<s, b>>)')

\* A counter that stays stays within its bounds when nothing is queued.
LEMMA CountSame ==
  ASSUME Types, NEW s \in Streams, CountInv(s), count'[s] = count[s], Fewer(s, {}),
         Filling' /\ Current' = s =>
           /\ Filling /\ Current = s
           /\ \A b \in Buffers : IsCounted(<<s, b>>) => IsCounted(<<s, b>>)'
  PROVE  CountInv(s)'
<1>1. Counted(s)' \subseteq Counted(s) /\ Countable(s) \subseteq Countable(s)'
  BY DEF Fewer, Counted, Countable
<1>2. /\ Cardinality(Counted(s)') <= Cardinality(Counted(s)) /\ Cardinality(Counted(s)') \in Nat
      /\ Cardinality(Countable(s)) <= Cardinality(Countable(s)') /\ Cardinality(Countable(s)') \in Nat
      /\ Cardinality(Counted(s)) \in Nat /\ Cardinality(Countable(s)) \in Nat
  BY <1>1, Sets, Sizes
<1>3. count[s] \in Int
  BY DEF Types, BufTypes
<1>4. Filling' /\ Current' = s => Counted(s)' = Counted(s) /\ Filling /\ Current = s
  BY <1>1 DEF Counted
<1>5. /\ Cardinality(Counted(s)) <= count[s] /\ count[s] <= Cardinality(Countable(s))
      /\ Filling /\ Current = s => count[s] = Cardinality(Counted(s))
  BY DEF CountInv
<1>6. Cardinality(Counted(s)') <= count'[s] /\ count'[s] <= Cardinality(Countable(s)')
  BY <1>2, <1>3, <1>5
<1>7. Filling' /\ Current' = s => count'[s] = Cardinality(Counted(s)')
  BY <1>4, <1>5
<1> QED
  BY <1>6, <1>7 DEF CountInv

\* A counter goes down with a buffer that it counted.
LEMMA CountLess ==
  ASSUME Types, NEW s \in Streams, CountInv(s), count'[s] = count[s] - 1,
         NEW c \in Buffers, Fewer(s, {c}),
         IsCounted(<<s, c>>), ~IsCounted(<<s, c>>)', ~(Filling' /\ Current' = s)
  PROVE  CountInv(s)'
<1>1. Counted(s)' \subseteq Counted(s) \ {c} /\ Countable(s) \ {c} \subseteq Countable(s)'
      /\ c \in Counted(s)
  BY DEF Fewer, Counted, Countable
<1>2. Counted(s) \ {c} \in SUBSET Buffers /\ Countable(s) \ {c} \in SUBSET Buffers
  BY Sets
<1>3. /\ Cardinality(Counted(s)') <= Cardinality(Counted(s) \ {c})
      /\ Cardinality(Countable(s) \ {c}) <= Cardinality(Countable(s)')
      /\ Cardinality(Counted(s)') \in Nat /\ Cardinality(Countable(s)') \in Nat
      /\ Cardinality(Counted(s)) \in Nat /\ Cardinality(Countable(s)) \in Nat
  BY <1>1, <1>2, Sets, Sizes
<1>4. /\ Cardinality(Counted(s) \ {c}) = Cardinality(Counted(s)) - 1
      /\ Cardinality(Countable(s) \ {c}) >= Cardinality(Countable(s)) - 1
  <2>1. /\ Cardinality(Counted(s) \ {c}) = Cardinality(Counted(s)) - 1
        /\ Cardinality(Countable(s) \ {c}) = IF c \in Countable(s) THEN Cardinality(Countable(s)) - 1
                                             ELSE Cardinality(Countable(s))
    BY <1>1, Sets, Sizes
  <2> QED
    BY <1>3, <2>1
<1>5. count[s] \in Int /\ Cardinality(Counted(s)) <= count[s] /\ count[s] <= Cardinality(Countable(s))
  BY DEF Types, BufTypes, CountInv
<1>6. Cardinality(Counted(s)') <= count'[s]
  BY <1>3, <1>4, <1>5
<1>7. count'[s] <= Cardinality(Countable(s)')
  <2>1. Cardinality(Countable(s) \ {c}) \in Nat
    BY <1>2, Sizes
  <2> QED
    BY <1>3, <1>4, <1>5, <2>1
<1> QED
  BY <1>6, <1>7 DEF CountInv

\* A counter goes up with a buffer that becomes countable.
LEMMA CountMore ==
  ASSUME Types, NEW s \in Streams, CountInv(s), count'[s] = count[s] + 1,
         NEW c \in Buffers, Fewer(s, {c}),
         ~IsCountable(<<s, c>>), IsCountable(<<s, c>>)', ~(Filling' /\ Current' = s)
  PROVE  CountInv(s)'
<1>1. Counted(s)' \subseteq Counted(s) \cup {c} /\ Countable(s) \cup {c} \subseteq Countable(s)'
      /\ c \notin Countable(s)
  BY DEF Fewer, Counted, Countable
<1>2. Counted(s) \cup {c} \in SUBSET Buffers /\ Countable(s) \cup {c} \in SUBSET Buffers
  BY Sets
<1>3. /\ Cardinality(Counted(s)') <= Cardinality(Counted(s) \cup {c})
      /\ Cardinality(Countable(s) \cup {c}) <= Cardinality(Countable(s)')
      /\ Cardinality(Counted(s)') \in Nat /\ Cardinality(Countable(s)') \in Nat
      /\ Cardinality(Counted(s)) \in Nat /\ Cardinality(Countable(s)) \in Nat
  BY <1>1, <1>2, Sets, Sizes
<1>4. /\ Cardinality(Counted(s) \cup {c}) <= Cardinality(Counted(s)) + 1
      /\ Cardinality(Countable(s) \cup {c}) = Cardinality(Countable(s)) + 1
  <2>1. /\ Cardinality(Countable(s) \cup {c}) = Cardinality(Countable(s)) + 1
        /\ Cardinality(Counted(s) \cup {c}) = IF c \in Counted(s) THEN Cardinality(Counted(s))
                                              ELSE Cardinality(Counted(s)) + 1
    BY <1>1, Sets, Sizes
  <2> QED
    BY <1>3, <2>1
<1>5. count[s] \in Int /\ Cardinality(Counted(s)) <= count[s] /\ count[s] <= Cardinality(Countable(s))
  BY DEF Types, BufTypes, CountInv
<1>6. Cardinality(Counted(s)') <= count'[s]
  <2>1. Cardinality(Counted(s) \cup {c}) \in Nat
    BY <1>2, Sizes
  <2> QED
    BY <1>3, <1>4, <1>5, <2>1
<1>7. count'[s] <= Cardinality(Countable(s)')
  BY <1>3, <1>4, <1>5
<1> QED
  BY <1>6, <1>7 DEF CountInv

\* A buffer that a step does not touch.
LEMMA SameCounted ==
  ASSUME NEW p \in Pairs, SameBuf(p), SamePoll(p)
  PROVE  /\ (InKernel(p)' => InKernel(p)) /\ (Placing(p)' => Placing(p)) =>
              (IsCounted(p)' => IsCounted(p))
         /\ (InKernel(p) => InKernel(p)') /\ (Placing(p) => Placing(p)') =>
              (IsCounted(p) => IsCounted(p)')
         /\ IsCountable(p)' <=> IsCountable(p)
<1>1. Ungiven(p)' = Ungiven(p)
  BY DEF Ungiven, SamePoll, Refs
<1>2. IsCountable(p)' <=> IsCountable(p)
  BY <1>1 DEF IsCountable, SameBuf, SamePoll
<1> QED
  BY <1>2 DEF IsCounted, SameBuf, SamePoll

\* What the caller is about to queue does not change while it waits for the kernel.
LEMMA PlacingStays ==
  ASSUME Places, Bufs, Next, UNCHANGED caller, NEW p \in Pairs,
         PollThread \/ (\E s \in Streams : KernelFills(s))
         \/ (\E q \in Pairs : Dispatch(q) \/ \E u \in Users : QBuf(q, u) \/ Finish(q, u))
  PROVE  Placing(p)' <=> Placing(p)
<1>1. /\ Types /\ CallInv /\ KernelInv /\ setup' = setup
      /\ kernel \in [Streams -> KernelSide]
  BY TypesStep DEF Places, Types
<1>2. Current' = Current
  BY <1>1, SameCurrent
<1>3. caller.at = "ioctl" => Filling /\ Current \in Streams /\ ~kernel[Current].streaming
                             /\ kernel[Current].filled = {}
  BY <1>1, CalledIs DEF Filling, KernelInv
<1>4. caller.at = "ioctl" => kernel'[Current].queued = kernel[Current].queued
  <2>1. CASE kernel' = kernel
    BY <2>1
  <2>2. CASE DataNotify
    <3>1. PICK s \in poll.ready :
            \/ \E b \in kernel[s].filled : kernel' = [kernel EXCEPT ![s].filled = @ \ {b}]
            \/ UNCHANGED kernel
      BY <2>2 DEF DataNotify
    <3>2. s \in Streams
      BY <1>1 DEF Types, PollTypes
    <3>3. ASSUME NEW b \in kernel[s].filled, kernel' = [kernel EXCEPT ![s].filled = @ \ {b}]
          PROVE  caller.at = "ioctl" => kernel'[Current].queued = kernel[Current].queued
      <4>1. KernelMoves(s) /\ kernel'[s].queued = kernel[s].queued
        BY <1>1, <3>2, <3>3, TakeIs
      <4> QED
        BY <1>3, <4>1 DEF KernelMoves
    <3> QED
      BY <2>1, <3>1, <3>3
  <2>3. ASSUME NEW s \in Streams, KernelFills(s)
        PROVE  caller.at = "ioctl" => kernel'[Current].queued = kernel[Current].queued
    <3>1. PICK b \in kernel[s].queued :
            kernel' = [kernel EXCEPT ![s].queued = @ \ {b}, ![s].filled = @ \cup {b}]
      BY <2>3 DEF KernelFills
    <3>2. KernelMoves(s) /\ kernel[s].streaming
      BY <1>1, <2>3, <3>1, FillIs DEF KernelFills
    <3> QED
      BY <1>3, <3>2 DEF KernelMoves
  <2>4. ASSUME NEW q \in Pairs, NEW u \in Users, QBufIoctl(q, u)
        PROVE  caller.at = "ioctl" => kernel'[Current].queued = kernel[Current].queued
    <3>1. CASE kernel' = [kernel EXCEPT ![q[1]].queued = @ \cup {q[2]}]
      <4>1. KernelMoves(q[1])
        BY <1>1, <3>1, PairFacts, QueueIs
      <4>2. caller.at = "ioctl" => Current # q[1]
        BY <1>3, <2>4, FillingAlone DEF QBufIoctl
      <4> QED
        BY <1>3, <4>1, <4>2 DEF KernelMoves
    <3> QED
      BY <2>1, <2>4, <3>1 DEF QBufIoctl
  <2> QED
    BY <2>1, <2>2, <2>3, <2>4
    DEF PollThread, PollCommand, PollReturns, PollLoopEnds, ReadMsmFrame, CountReferences,
        NotifyChannel, NotifyThread, Dispatch, QBuf, Finish, BufDone, QBufCounts
<1>5. caller.at = "ioctl" => ToQueue' = ToQueue
  BY <1>1, <1>2, <1>4 DEF ToQueue
<1>6. caller.at = "ioctl" => NextBuf' = NextBuf
  BY <1>5 DEF NextBuf
<1> QED
  BY <1>2, <1>6 DEF Placing

\* The caller's steps.
LEMMA CallCounts ==
  ASSUME Places, Bufs, Next, CallGoesOn, NEW s \in Streams, CountInv(s)
  PROVE  CountInv(s)'
<1>1. /\ Types /\ CallInv /\ StateInv /\ KernelInv /\ PollInv /\ setup' = setup
      /\ kernel \in [Streams -> KernelSide] /\ users \in [Pairs -> SUBSET Users]
      /\ count \in [Streams -> Int]
      /\ Places' /\ Bufs'
  BY TypesStep, CallStep, StateStep, KernelStep, PollStep, BufsStep DEF Places, Types, BufTypes
<1>2. /\ caller.at \notin {"none", "lost"} /\ Current \in Streams /\ done' = done /\ poll' = poll
      /\ Current' = Current \/ caller'.at \notin {"request", "queue", "ioctl", "on"}
  BY <1>1, CallerGoes
<1>3. \A b \in Buffers : <<s, b>> \in Pairs /\ <<s, b>>[1] = s /\ <<s, b>>[2] = b
  BY DEF Pairs
<1>4. \A a : Go(a) => caller'.at = a /\ caller'.op = caller.op /\ Current' = Current
  BY <1>1, <1>2, GoIs DEF Go
<1>5. \A a : NextStream(a) => caller'.at \in {"none", a}
  BY <1>1, <1>2, NextStreamIs DEF NoCall
<1>6. GiveUp => caller'.at = "off"
  BY DEF GiveUp
\* A step that takes buffers away, or nothing.
<1>7. ASSUME count'[s] = count[s], caller'.at \notin {"queue", "ioctl"},
             \A b \in Buffers : /\ users'[<<s, b>>] \subseteq users[<<s, b>>]
                                /\ InKernel(<<s, b>>)' => InKernel(<<s, b>>)
      PROVE  CountInv(s)'
  <2>1. ASSUME NEW b \in Buffers
        PROVE  (IsCounted(<<s, b>>)' => IsCounted(<<s, b>>)) /\ (IsCountable(<<s, b>>) => IsCountable(<<s, b>>)')
    <3> DEFINE p == <<s, b>>
    <3>1. p \in Pairs /\ users'[p] \subseteq users[p] /\ (InKernel(p)' => InKernel(p))
      BY <1>3, <1>7
    <3> HIDE DEF p
    <3>2. ~Placing(p)'
      BY <1>7 DEF Placing
    <3>3. IsCounted(p)' => IsCounted(p)
      BY <1>2, <3>1, <3>2 DEF IsCounted
    <3>4. Ungiven(p)' = Ungiven(p)
      BY <1>2 DEF Ungiven, Refs
    <3>5. IsCountable(p) => IsCountable(p)'
      BY <1>2, <3>1, <3>4 DEF IsCountable
    <3> QED
      BY <3>3, <3>5 DEF p
  <2>2. Fewer(s, {})
    BY <2>1 DEF Fewer
  <2>3. ~Filling'
    BY <1>7 DEF Filling
  <2> QED
    BY <1>1, <1>7, <2>2, <2>3, CountSame
<1>8. CASE s # Current
  <2>1. count'[s] = count[s]
    <3>1. count' = count \/ CountUp(Current) \/ CountDown(Current) \/ count' = [count EXCEPT ![Current] = 0]
      BY DEF CallGoesOn, GetBuf, RequestBuf, QueueCounts, QueueIoctl, Launch, StreamOn,
             StreamOff, Synced, Join, UnregBuf, PutBuf, bufVars
    <3> QED
      BY <1>1, <1>2, <1>8, <3>1, Counters
  <2>2. ASSUME NEW b \in Buffers
        PROVE  (IsCounted(<<s, b>>)' => IsCounted(<<s, b>>)) /\ (IsCountable(<<s, b>>) => IsCountable(<<s, b>>)')
    <3> DEFINE p == <<s, b>>
    <3>1. p \in Pairs /\ p[1] = s
      BY <1>3
    <3> HIDE DEF p
    <3>2. SameBuf(p) /\ kernel'[p[1]] = kernel[p[1]]
      BY <1>1, <1>8, <3>1, CallFrame
    <3>3. SamePoll(p) /\ (InKernel(p)' => InKernel(p))
      BY <1>2, <3>2 DEF SamePoll, InKernel
    <3>4. Placing(p)' => Placing(p)
      BY <1>2, <1>8, <3>1 DEF Placing
    <3> QED
      BY <3>1, <3>2, <3>3, <3>4, SameCounted DEF p
  <2>3. ~(Filling' /\ Current' = s)
    BY <1>2, <1>8 DEF Filling
  <2> QED
    BY <1>1, <2>1, <2>2, <2>3, CountSame DEF Fewer
<1>9. CASE s = Current
  <2>1. CASE GetBuf \/ Launch \/ StreamOff \/ Join
    <3>1. users' = users /\ kernel' = kernel /\ count' = count
      BY <2>1 DEF GetBuf, Launch, StreamOff, Join, bufVars
    <3>2. caller'.at \in {"request", "off", "on", "wait", "unreg", "lost"}
      BY <1>4, <1>6, <2>1 DEF GetBuf, Launch, StreamOff, Join, NoCall
    <3>3. \A b \in Buffers : InKernel(<<s, b>>)' => InKernel(<<s, b>>)
      BY <3>1 DEF InKernel
    <3> QED
      BY <1>7, <3>1, <3>2, <3>3
  <2>2. CASE StreamOn
    <3>1. users' = users /\ count' = count /\ caller'.at \in {"none", "get", "wait"}
      BY <1>4, <1>5, <2>2 DEF StreamOn, bufVars
    <3>2. kernel'[s].queued = kernel[s].queued /\ kernel'[s].filled = kernel[s].filled
      BY <1>1, <1>2, <1>9, <2>2, OnIs DEF StreamOn
    <3>3. \A b \in Buffers : InKernel(<<s, b>>)' => InKernel(<<s, b>>)
      BY <3>2 DEF InKernel
    <3> QED
      BY <1>7, <3>1, <3>3
  <2>3. CASE Synced \/ UnregBuf \/ PutBuf
    <3>1. count' = count /\ caller'.at \in {"join", "none", "off", "put"}
      <4>1. caller' = [caller EXCEPT !.at = "put", !.i = 1] => caller'.at = "put"
        BY <1>1, <1>2, CalledIs
      <4>2. count' = count
        BY <2>3 DEF Synced, UnregBuf, PutBuf, bufVars
      <4>3. CASE Synced
        BY <1>4, <4>2, <4>3 DEF Synced
      <4>4. CASE UnregBuf
        BY <1>4, <1>5, <4>1, <4>2, <4>4 DEF UnregBuf
      <4>5. CASE PutBuf
        BY <1>5, <4>2, <4>5 DEF PutBuf
      <4> QED
        BY <2>3, <4>3, <4>4, <4>5
    <3>2. \A b \in Buffers : users'[<<s, b>>] \subseteq users[<<s, b>>]
      <4>1. CASE Synced \/ UnregBuf
        BY <4>1 DEF Synced, UnregBuf, bufVars
      <4>2. CASE PutBuf
        <5>1. CASE users' = users
          BY <5>1
        <5>2. CASE users' = [q \in Pairs |-> IF q[1] = Current THEN {} ELSE users[q]]
          BY <1>3, <1>9, <5>2
        <5> QED
          BY <4>2, <5>1, <5>2 DEF PutBuf
      <4> QED
        BY <2>3, <4>1, <4>2
    <3>3. kernel'[s] = kernel[s] \/ (kernel'[s].queued = {} /\ kernel'[s].filled = {})
      <4>1. CASE kernel' = kernel
        BY <4>1
      <4>2. CASE kernel' = [kernel EXCEPT ![Current] = [Quiet EXCEPT !.requested = TRUE]]
                 \/ kernel' = [kernel EXCEPT ![Current] = Quiet]
        <5>1. kernel'[s] \in {[Quiet EXCEPT !.requested = TRUE], Quiet}
          BY <1>1, <1>9, <4>2
        <5> QED
          BY <5>1 DEF Quiet
      <4> QED
        BY <2>3, <4>1, <4>2 DEF Synced, UnregBuf, PutBuf
    <3>4. \A b \in Buffers : InKernel(<<s, b>>)' => InKernel(<<s, b>>)
      BY <3>3 DEF InKernel
    <3> QED
      BY <1>7, <3>1, <3>2, <3>4
  <2>4. ASSUME caller'.at \in {"queue", "ioctl"}, count'[s] = Cardinality(Counted(s)')
        PROVE  CountInv(s)'
    <3>1. Counted(s)' \subseteq Countable(s)'
      <4>1. (Places /\ Bufs => Counted(s) \subseteq Countable(s))'
        BY CountedWithin, PTL
      <4> QED
        BY <1>1, <4>1
    <3>2. Cardinality(Counted(s)') <= Cardinality(Countable(s)') /\ Cardinality(Counted(s)') \in Nat
      BY <3>1, Sets, Sizes
    <3> QED
      BY <2>4, <3>2 DEF CountInv
  <2>5. CASE RequestBuf
    <3>1. CASE GiveUp /\ UNCHANGED <<kernel, count, refcnt, users, lost>>
      <4>1. \A b \in Buffers : InKernel(<<s, b>>)' => InKernel(<<s, b>>)
        BY <3>1 DEF InKernel
      <4> QED
        BY <1>6, <1>7, <3>1, <4>1
    <3>2. CASE /\ kernel' = [kernel EXCEPT ![Current] = [Quiet EXCEPT !.requested = TRUE]]
               /\ count' = [count EXCEPT ![Current] = 0]
               /\ Go("queue")
      <4>1. /\ kernel'[s].queued = {} /\ kernel'[s].filled = {} /\ count'[s] = 0
            /\ caller'.at = "queue" /\ caller.at = "request"
        <5>1. kernel'[s] = [Quiet EXCEPT !.requested = TRUE] /\ count'[s] = 0
          BY <1>1, <1>9, <3>2
        <5> QED
          BY <1>4, <2>5, <3>2, <5>1 DEF Quiet, RequestBuf
      <4>2. ASSUME NEW b \in Buffers PROVE ~IsCounted(<<s, b>>)'
        <5> DEFINE p == <<s, b>>
        <5>1. p \in Pairs /\ p[1] = s
          BY <1>3
        <5> HIDE DEF p
        <5>2. ~InKernel(p)' /\ ~Placing(p)'
          BY <4>1, <5>1 DEF InKernel, Placing
        <5>3. \A u \in Users : done'[<<p, u>>] = "no"
          BY <1>2, <1>9, <4>1, <5>1 DEF Bufs, UserInv
        <5>4. poll.buf # p
          <6>1. state[s] = "BUFFED" /\ p # << >>
            BY <1>1, <1>9, <4>1, <5>1, PairFacts DEF StateInv
          <6> QED
            BY <1>1, <1>2, <5>1, <6>1 DEF PollInv
        <5>5. ~IsCounted(p)'
          BY <1>2, <5>2, <5>3, <5>4 DEF IsCounted
        <5> QED
          BY <5>5 DEF p
      <4>3. Counted(s)' = {}
        BY <4>2 DEF Counted
      <4>4. Cardinality(Counted(s)') = 0
        BY <4>3, FS_EmptySet
      <4> QED
        BY <2>4, <4>1, <4>4
    <3> QED
      BY <2>5, <3>1, <3>2 DEF RequestBuf
  <2>6. CASE QueueCounts
    <3>1. caller.at = "queue" /\ ToQueue # {} /\ kernel' = kernel /\ users' = users
      BY <2>6 DEF QueueCounts
    <3>2. CASE GiveUp /\ UNCHANGED count
      <4>1. \A b \in Buffers : InKernel(<<s, b>>)' => InKernel(<<s, b>>)
        BY <3>1 DEF InKernel
      <4> QED
        BY <1>6, <1>7, <3>1, <3>2, <4>1
    <3>3. CASE CountUp(s) /\ Go("ioctl")
      <4>1. /\ CountUp(s) /\ caller.at = "queue" /\ caller'.at = "ioctl" /\ Current' = Current
            /\ ToQueue # {} /\ kernel' = kernel
        BY <1>4, <3>1, <3>3
      <4>2. count'[s] = count[s] + 1 /\ count[s] = Cardinality(Counted(s))
        BY <1>1, <1>9, <4>1, Counters DEF CountInv, Filling
      <4>3. NextBuf' = NextBuf
        <5>1. ToQueue' = ToQueue
          BY <1>1, <4>1 DEF ToQueue
        <5> QED
          BY <5>1 DEF NextBuf
      <4>4. NextBuf \in ToQueue
        BY <4>1, NextBufIs
      <4>5. NextBuf \in Buffers
        <5>1. setup.buffers[Current] \subseteq Buffers
          BY <1>1, <1>2, CalledIs
        <5> QED
          BY <4>4, <5>1 DEF ToQueue
      <4>6. ASSUME NEW b \in Buffers
            PROVE  /\ IsCounted(<<s, b>>)' <=> IsCounted(<<s, b>>) \/ b = NextBuf
                   /\ b = NextBuf => ~IsCounted(<<s, b>>)
        <5> DEFINE p == <<s, b>>
        <5>1. p \in Pairs /\ p[1] = s /\ p[2] = b
          BY <1>3
        <5> HIDE DEF p
        <5>2. ~Placing(p) /\ (Placing(p)' <=> b = NextBuf)
          BY <1>9, <4>1, <4>3, <5>1 DEF Placing
        <5>3. InKernel(p)' <=> InKernel(p)
          BY <4>1 DEF InKernel
        <5>4. IsCounted(p)' <=> IsCounted(p) \/ b = NextBuf
          BY <1>2, <5>2, <5>3 DEF IsCounted
        <5>5. poll.buf # p /\ (\A u \in Users : done[<<p, u>>] = "no") /\ kernel[s].filled = {}
          BY <1>9, <4>1, <5>1, FillingAlone DEF Filling
        <5>6. b = NextBuf => ~InKernel(p)
          BY <1>9, <4>4, <5>1, <5>5 DEF ToQueue, InKernel
        <5>7. b = NextBuf => ~IsCounted(p)
          BY <5>2, <5>5, <5>6 DEF IsCounted
        <5> QED
          BY <5>4, <5>7 DEF p
      <4>7. Counted(s)' = Counted(s) \cup {NextBuf} /\ NextBuf \notin Counted(s)
        BY <4>5, <4>6 DEF Counted
      <4>8. Cardinality(Counted(s)') = Cardinality(Counted(s)) + 1
        BY <4>7, Sets, Sizes
      <4> QED
        BY <2>4, <4>1, <4>2, <4>8
    <3> QED
      BY <1>9, <2>6, <3>2, <3>3 DEF QueueCounts
  <2>7. CASE QueueIoctl
    <3>1. caller.at = "ioctl" /\ NextBuf \in ToQueue /\ users' = users /\ lost' = lost
      BY <1>1, <2>7, NextBufIs DEF QueueIoctl, KernelInv
    <3>2. NextBuf \in Buffers
      <4>1. setup.buffers[Current] \subseteq Buffers
        BY <1>1, <1>2, CalledIs
      <4> QED
        BY <3>1, <4>1 DEF ToQueue
    <3>3. kernel[s].filled = {} /\ \A b \in Buffers :
            poll.buf # <<s, b>> /\ \A u \in Users : done[<<<<s, b>>, u>>] = "no"
      <4>1. Filling
        BY <3>1 DEF Filling
      <4> QED
        BY <1>3, <1>9, <4>1, FillingAlone
    <3>4. CASE CountDown(s) /\ GiveUp /\ UNCHANGED <<kernel, refcnt>>
      <4>1. count'[s] = count[s] - 1 /\ caller'.at = "off"
        BY <1>1, <1>6, <3>4, Counters
      <4>2. ASSUME NEW b \in Buffers
            PROVE  /\ IsCounted(<<s, b>>)' => IsCounted(<<s, b>>) /\ b # NextBuf
                   /\ IsCountable(<<s, b>>) => IsCountable(<<s, b>>)'
        <5> DEFINE p == <<s, b>>
        <5>1. p \in Pairs /\ p[1] = s /\ p[2] = b
          BY <1>3
        <5>2. poll.buf # p /\ \A u \in Users : done[<<p, u>>] = "no"
          BY <3>3
        <5> HIDE DEF p
        <5>3. SameBuf(p) /\ SamePoll(p) /\ (InKernel(p)' <=> InKernel(p)) /\ ~Placing(p)'
          BY <1>2, <3>1, <3>4, <4>1 DEF SameBuf, SamePoll, InKernel, Placing
        <5>4. (IsCounted(p)' => IsCounted(p)) /\ (IsCountable(p) => IsCountable(p)')
          BY <5>1, <5>3, SameCounted
        <5>5. b = NextBuf => ~InKernel(p)
          BY <1>9, <3>1, <3>3, <5>1 DEF ToQueue, InKernel
        <5>6. b = NextBuf => ~IsCounted(p)'
          BY <1>2, <5>2, <5>3, <5>5 DEF IsCounted
        <5> QED
          BY <5>4, <5>6 DEF p
      <4>3. PICK n \in Buffers : n = NextBuf
        BY <3>2
      <4>4. IsCounted(<<s, n>>)
        BY <1>3, <1>9, <3>1, <4>3 DEF IsCounted, Placing
      <4>5. ~IsCounted(<<s, n>>)'
        BY <4>2, <4>3
      <4>6. Fewer(s, {n})
        BY <4>2 DEF Fewer
      <4>7. ~(Filling' /\ Current' = s)
        BY <4>1 DEF Filling
      <4> QED
        BY <1>1, <4>1, <4>4, <4>5, <4>6, <4>7, CountLess
    <3>5. CASE /\ kernel' = [kernel EXCEPT ![Current].queued = @ \cup {NextBuf}]
               /\ Go("queue") /\ UNCHANGED count
      <4>1. caller'.at = "queue" /\ Current' = Current
        BY <1>4, <3>5
      <4>2. /\ kernel'[s].queued = kernel[s].queued \cup {NextBuf}
            /\ kernel'[s].filled = kernel[s].filled
        BY <1>1, <1>2, <1>9, <3>2, <3>5, QueueIs
      <4>3. ASSUME NEW b \in Buffers PROVE IsCounted(<<s, b>>)' <=> IsCounted(<<s, b>>)
        <5> DEFINE p == <<s, b>>
        <5>1. p \in Pairs /\ p[1] = s /\ p[2] = b
          BY <1>3
        <5>2. poll.buf # p /\ \A u \in Users : done[<<p, u>>] = "no"
          BY <3>3
        <5> HIDE DEF p
        <5>3. InKernel(p)' <=> InKernel(p) \/ b = NextBuf
          BY <4>2, <5>1 DEF InKernel
        <5>4. ~Placing(p)' /\ (Placing(p) <=> b = NextBuf)
          BY <1>9, <3>1, <4>1, <5>1 DEF Placing
        <5>5. IsCounted(p)' <=> IsCounted(p)
          BY <1>2, <5>2, <5>3, <5>4 DEF IsCounted
        <5> QED
          BY <5>5 DEF p
      <4>4. Counted(s)' = Counted(s)
        BY <4>3 DEF Counted
      <4>5. count'[s] = Cardinality(Counted(s)')
        BY <1>9, <3>1, <3>5, <4>4 DEF CountInv, Filling
      <4> QED
        BY <2>4, <4>1, <4>5
    <3> QED
      BY <1>9, <2>7, <3>4, <3>5 DEF QueueIoctl, NextBuf
  <2> QED
    BY <2>1, <2>2, <2>3, <2>5, <2>6, <2>7 DEF CallGoesOn
<1> QED
  BY <1>8, <1>9

\* The others' steps.
LEMMA OtherCounts ==
  ASSUME Places, Bufs, Next, NEW s \in Streams, CountInv(s),
         PollThread \/ (\E t \in Streams : KernelFills(t))
         \/ (\E q \in Pairs : Dispatch(q) \/ \E u \in Users : QBuf(q, u) \/ Finish(q, u))
  PROVE  CountInv(s)'
<1>1. /\ Types /\ CallInv /\ StateInv /\ KernelInv /\ PollInv /\ setup' = setup
      /\ kernel \in [Streams -> KernelSide] /\ users \in [Pairs -> SUBSET Users]
      /\ count \in [Streams -> Int]
      /\ poll \in [at : {"poll", "loop", "read", "counted", "give", "call"},
                   ready : SUBSET Streams, buf : Pairs \cup {<< >>}]
  BY TypesStep DEF Places, Types, BufTypes, PollTypes
<1>2. UNCHANGED <<caller, state>> /\ Current' = Current
  <2>1. UNCHANGED <<caller, state>>
    BY DEF PollThread, PollCommand, PollReturns, PollLoopEnds, DataNotify, ReadMsmFrame,
           CountReferences, NotifyChannel, NotifyThread, KernelFills, Dispatch, QBuf, Finish,
           BufDone, QBufCounts, QBufIoctl, chVars
  <2> QED
    BY <1>1, <2>1, SameCurrent
<1>3. \A b \in Buffers : <<s, b>> \in Pairs /\ <<s, b>>[1] = s /\ <<s, b>>[2] = b
  BY DEF Pairs
<1>4. \A q \in Pairs : Placing(q)' <=> Placing(q)
  BY <1>2, PlacingStays
<1>5. Filling' /\ Current' = s <=> Filling /\ Current = s
  BY <1>2 DEF Filling
<1>6. Filling /\ Current = s =>
        \A q \in Pairs : q[1] = s => poll.buf # q /\ \A u \in Users : done[<<q, u>>] = "no"
  BY FillingAlone
\* A step that touches one buffer at most, and leaves the counter alone.
<1>7. ASSUME count'[s] = count[s], NEW P,
             \A q \in Pairs : q # P => SameBuf(q) /\ SamePoll(q) /\ (InKernel(q)' <=> InKernel(q)),
             P \in Pairs /\ P[1] = s =>
               /\ IsCounted(P)' => IsCounted(P)
               /\ IsCountable(P) => IsCountable(P)'
               /\ Filling /\ Current = s => (IsCounted(P) => IsCounted(P)')
      PROVE  CountInv(s)'
  <2>1. ASSUME NEW b \in Buffers
        PROVE  /\ (IsCounted(<<s, b>>)' => IsCounted(<<s, b>>)) /\ (IsCountable(<<s, b>>) => IsCountable(<<s, b>>)')
               /\ Filling /\ Current = s => (IsCounted(<<s, b>>) => IsCounted(<<s, b>>)')
    <3> DEFINE p == <<s, b>>
    <3>1. p \in Pairs /\ p[1] = s
      BY <1>3
    <3> HIDE DEF p
    <3>2. CASE p = P
      BY <1>7, <3>1, <3>2 DEF p
    <3>3. CASE p # P
      BY <1>4, <1>7, <3>1, <3>3, SameCounted DEF p
    <3> QED
      BY <3>2, <3>3
  <2> QED
    BY <1>1, <1>5, <1>7, <2>1, CountSame DEF Fewer
\* One that counts the buffer P up or down.
<1>8. ASSUME NEW P \in Pairs, CountUp(P[1]) \/ CountDown(P[1]),
             CountUp(P[1]) => ~IsCountable(P) /\ IsCountable(P)',
             CountDown(P[1]) => IsCounted(P) /\ ~IsCounted(P)',
             ~(Filling /\ Current = P[1]),
             \A q \in Pairs : q # P => SameBuf(q) /\ SamePoll(q) /\ (InKernel(q)' <=> InKernel(q))
      PROVE  CountInv(s)'
  <2>1. P = <<P[1], P[2]>> /\ P[1] \in Streams /\ P[2] \in Buffers
    BY PairFacts
  <2>2. CASE P[1] # s
    <3>1. count'[s] = count[s]
      BY <1>1, <1>8, <2>1, <2>2, Counters
    <3> QED
      BY <1>7, <1>8, <2>2, <3>1
  <2>3. CASE P[1] = s
    <3>1. /\ CountUp(s) => count'[s] = count[s] + 1
          /\ CountDown(s) => count'[s] = count[s] - 1
      BY <1>1, Counters
    <3>2. Fewer(s, {P[2]})
      <4> SUFFICES ASSUME NEW b \in Buffers \ {P[2]}
                   PROVE  (IsCounted(<<s, b>>)' => IsCounted(<<s, b>>)) /\ (IsCountable(<<s, b>>) => IsCountable(<<s, b>>)')
        BY DEF Fewer
      <4> DEFINE p == <<s, b>>
      <4>1. p \in Pairs /\ p # P
        BY <1>3, <2>1
      <4> HIDE DEF p
      <4> QED
        BY <1>4, <1>8, <4>1, SameCounted DEF p
    <3>3. ~(Filling' /\ Current' = s) /\ P = <<s, P[2]>>
      BY <1>5, <1>8, <2>1, <2>3
    <3>4. CASE CountUp(s)
      <4>1. ~IsCountable(<<s, P[2]>>) /\ IsCountable(<<s, P[2]>>)'
        BY <1>8, <2>3, <3>3, <3>4
      <4> QED
        BY <1>1, <2>1, <3>1, <3>2, <3>3, <3>4, <4>1, CountMore
    <3>5. CASE CountDown(s)
      <4>1. IsCounted(<<s, P[2]>>) /\ ~IsCounted(<<s, P[2]>>)'
        BY <1>8, <2>3, <3>3, <3>5
      <4> QED
        BY <1>1, <2>1, <3>1, <3>2, <3>3, <3>5, <4>1, CountLess
    <3> QED
      BY <1>8, <2>3, <3>4, <3>5
  <2> QED
    BY <2>2, <2>3
<1>9. ASSUME UNCHANGED <<count, users, refcnt, done, lost, kernel>>
      PROVE  \A q \in Pairs : SameBuf(q) /\ (InKernel(q)' <=> InKernel(q))
  BY <1>9 DEF SameBuf, InKernel
<1>10. CASE PollCommand \/ PollReturns \/ PollLoopEnds
  <2>1. UNCHANGED <<count, users, refcnt, done, lost, kernel>>
    BY <1>10 DEF PollCommand, PollReturns, PollLoopEnds, bufVars
  <2>2. \A q \in Pairs : SamePoll(q)
    <3>1. CASE PollCommand
      BY <3>1 DEF PollCommand, SamePoll
    <3>2. CASE PollReturns
      <4>1. poll.buf = << >> /\ poll'.buf = << >>
        BY <1>1, <3>2 DEF PollReturns, PollInv
      <4> QED
        BY <4>1, PairFacts DEF SamePoll
    <3>3. CASE PollLoopEnds
      <4>1. poll.buf = << >> /\ poll'.buf = << >>
        BY <1>1, <3>3 DEF PollLoopEnds, PollInv, Polling
      <4> QED
        BY <4>1, PairFacts DEF SamePoll
    <3> QED
      BY <1>10, <3>1, <3>2, <3>3
  <2>3. \A q \in Pairs : SameBuf(q) /\ SamePoll(q) /\ (InKernel(q)' <=> InKernel(q))
    BY <1>9, <2>1, <2>2
  <2> QED
    BY <1>7, <2>1, <2>3, NoPair
<1>11. CASE DataNotify
  <2>1. UNCHANGED <<count, users, refcnt, done, lost>> /\ poll.at = "loop" /\ poll.buf = << >>
    BY <1>1, <1>11 DEF DataNotify, bufVars, PollInv
  <2>2. PICK t \in poll.ready :
          \/ /\ state[t] = "ACTIVE"
             /\ \E b \in kernel[t].filled :
                  /\ kernel' = [kernel EXCEPT ![t].filled = @ \ {b}]
                  /\ poll' = [at |-> "read", ready |-> poll.ready \ {t}, buf |-> <<t, b>>]
          \/ poll' = [poll EXCEPT !.ready = @ \ {t}] /\ UNCHANGED kernel
    BY <1>11 DEF DataNotify
  <2>3. t \in Streams
    BY <1>1
  <2>4. CASE poll' = [poll EXCEPT !.ready = @ \ {t}] /\ UNCHANGED kernel
    <3>1. poll'.buf = << >>
      BY <1>1, <2>1, <2>4
    <3>2. \A q \in Pairs : SameBuf(q) /\ SamePoll(q) /\ (InKernel(q)' <=> InKernel(q))
      BY <1>9, <2>1, <2>4, <3>1, PairFacts DEF SamePoll
    <3> QED
      BY <1>7, <2>1, <3>2, NoPair
  <2>5. ASSUME NEW b \in kernel[t].filled, state[t] = "ACTIVE",
               kernel' = [kernel EXCEPT ![t].filled = @ \ {b}],
               poll' = [at |-> "read", ready |-> poll.ready \ {t}, buf |-> <<t, b>>]
        PROVE  CountInv(s)'
    <3> DEFINE P == <<t, b>>
    <3>1. P \in Pairs /\ P[1] = t /\ P[2] = b
      <4>1. b \in Buffers
        BY <1>1, <2>3, <2>5 DEF KernelSide
      <4> QED
        BY <2>3, <4>1 DEF Pairs
    <3>2. poll'.buf = P /\ poll'.at = "read"
      BY <2>5
    <3>3. \A q \in Pairs : q # P => q[1] # t \/ q[2] # b
      BY PairFacts
    <3> HIDE DEF P
    <3>4. KernelMoves(t) /\ kernel'[t].queued = kernel[t].queued
          /\ kernel'[t].filled = kernel[t].filled \ {b}
      BY <1>1, <2>3, <2>5, TakeIs
    <3>5. ASSUME NEW q \in Pairs, q # P
          PROVE  SameBuf(q) /\ SamePoll(q) /\ (InKernel(q)' <=> InKernel(q))
      <4>1. SameBuf(q) /\ SamePoll(q)
        BY <2>1, <3>2, <3>5, PairFacts DEF SameBuf, SamePoll
      <4>2. q[1] \in Streams /\ (q[1] # t \/ q[2] # b)
        BY <3>3, <3>5, PairFacts
      <4>3. q[2] \in kernel'[q[1]].queued <=> q[2] \in kernel[q[1]].queued
        BY <3>4, <4>2 DEF KernelMoves
      <4>4. q[2] \in kernel'[q[1]].filled <=> q[2] \in kernel[q[1]].filled
        BY <3>4, <4>2 DEF KernelMoves
      <4> QED
        BY <4>1, <4>3, <4>4 DEF InKernel
    <3>6. IsCounted(P)
      BY <2>5, <3>1 DEF IsCounted, InKernel
    <3>7. IsCountable(P) => IsCountable(P)'
      BY <2>1, <3>2 DEF IsCountable, Ungiven
    <3>8. IsCounted(P)'
      BY <3>2 DEF IsCounted
    <3> QED
      BY <1>7, <2>1, <3>5, <3>6, <3>7, <3>8
  <2> QED
    BY <2>2, <2>4, <2>5
\* The poll thread and the buffer it has.
<1>12. CASE ReadMsmFrame \/ CountReferences \/ NotifyChannel \/ NotifyThread
  <2> DEFINE P == poll.buf
  <2>1. /\ poll.at \in {"read", "counted", "give", "call"} /\ kernel' = kernel /\ done' = done
        /\ poll'.buf \in {P, << >>}
    BY <1>1, <1>12 DEF ReadMsmFrame, CountReferences, NotifyChannel, NotifyThread
  <2>2. P \in Pairs /\ P[1] \in Streams /\ P # << >>
    BY <1>1, <2>1, PairFacts DEF PollInv
  <2>3. ASSUME NEW q \in Pairs, q # P
        PROVE  SameBuf(q) /\ SamePoll(q) /\ (InKernel(q)' <=> InKernel(q))
    <3>1. users'[q] = users[q]
      <4>1. users' = users \/ \E S : users' = [users EXCEPT ![P] = S]
        BY <1>12 DEF ReadMsmFrame, CountReferences, NotifyChannel, NotifyThread
      <4> QED
        BY <1>1, <2>3, <4>1
    <3>2. refcnt'[q] = refcnt[q]
      <4>1. refcnt' = refcnt \/ \E n : refcnt' = [refcnt EXCEPT ![P] = n]
        BY <1>12 DEF ReadMsmFrame, CountReferences, NotifyChannel, NotifyThread
      <4>2. refcnt \in [Pairs -> 0 .. 255]
        BY <1>1 DEF Types, BufTypes
      <4> QED
        BY <2>3, <4>1, <4>2
    <3>3. q \in lost => q \in lost'
      BY <1>12 DEF ReadMsmFrame, CountReferences, NotifyChannel, NotifyThread, Lose
    <3> QED
      BY <2>1, <2>3, <3>1, <3>2, <3>3, PairFacts DEF SameBuf, SamePoll, InKernel
  <2>4. PICK p \in Pairs : p = poll.buf
    BY <2>2
  <2>5. UserInv(p) /\ (InKernel(p)' <=> InKernel(p)) /\ (Placing(p)' <=> Placing(p)) /\ p[1] \in Streams
    BY <1>4, <2>1, <2>2, <2>4 DEF Bufs, InKernel
  <2>6. \A q \in Pairs : q # p => SameBuf(q) /\ SamePoll(q) /\ (InKernel(q)' <=> InKernel(q))
    BY <2>3, <2>4
  <2>7. ~(Filling /\ Current = p[1])
    BY <2>4, FillingAlone, PairFacts
  <2>8. CASE ReadMsmFrame
    <3>1. CountDown(p[1]) /\ poll.at = "read"
          /\ (poll'.buf = p => poll'.at = "counted")
      BY <1>1, <2>2, <2>4, <2>8 DEF ReadMsmFrame
    <3>2. \A u \in Users : done[<<p, u>>] = "no"
      BY <1>1, <2>2, <2>4, <3>1 DEF PollInv
    <3>3. ~InKernel(p)
      BY <2>4, <2>5, <3>1 DEF UserInv
    <3>4. ~Placing(p)
      BY <2>7 DEF Placing, Filling
    <3>5. IsCounted(p) /\ ~IsCounted(p)'
      BY <2>1, <2>4, <2>5, <3>1, <3>2, <3>3, <3>4 DEF IsCounted
    <3>6. ~CountUp(p[1])
      <4>1. count[p[1]] \in Int
        BY <1>1, <2>5
      <4> QED
        BY <1>1, <2>5, <3>1, <4>1, Counters
    <3> QED
      BY <1>8, <2>6, <2>7, <3>1, <3>5, <3>6
  <2>9. CASE CountReferences
    <3>1. count' = count /\ poll.at = "counted" /\ poll'.at = "give"
      BY <1>1, <2>9 DEF CountReferences
    <3>2. ~IsCountable(p)
      BY <2>4, <3>1 DEF IsCountable
    <3>3. IsCounted(p)' <=> IsCounted(p)
      BY <2>1, <2>5, <3>1 DEF IsCounted
    <3> QED
      BY <1>7, <2>6, <3>1, <3>2, <3>3
  <2>10. CASE NotifyChannel
    <3>1. count' = count /\ poll.at = "give" /\ poll'.at = "call"
      BY <1>1, <2>10 DEF NotifyChannel
    <3>2. ~IsCountable(p)
      BY <2>4, <2>5, <3>1, Subscribers DEF IsCountable, Ungiven, Refs
    <3>3. IsCounted(p)' <=> IsCounted(p)
      BY <2>1, <2>5, <3>1 DEF IsCounted
    <3> QED
      BY <1>7, <2>6, <3>1, <3>2, <3>3
  <2>11. CASE NotifyThread
    <3>1. /\ count' = count /\ poll.at = "call" /\ poll'.at = "loop" /\ poll'.buf = << >>
          /\ users' = [users EXCEPT ![p] = IF p[1] \in thread THEN @ \cup {"thread"} ELSE @]
      BY <1>1, <2>4, <2>11 DEF NotifyThread
    <3>2. IsCountable(p) => IsCountable(p)'
      <4>1. p[1] \in Called => ~IsCountable(p)
        BY <2>4, <3>1 DEF IsCountable, Ungiven
      <4>2. p[1] \notin Called => users'[p] = users[p]
        BY <1>1, <3>1 DEF StateInv
      <4>3. Ungiven(p)' = 0 /\ poll'.buf # p
        BY <2>2, <2>4, <3>1 DEF Ungiven
      <4> QED
        BY <2>1, <4>1, <4>2, <4>3 DEF IsCountable
    <3>3. IsCounted(p)' <=> IsCounted(p)
      BY <2>1, <2>5, <3>1 DEF IsCounted
    <3> QED
      BY <1>7, <2>6, <3>1, <3>2, <3>3
  <2> QED
    BY <1>12, <2>8, <2>9, <2>10, <2>11
<1>13. ASSUME NEW t \in Streams, KernelFills(t)
       PROVE  CountInv(s)'
  <2>1. UNCHANGED <<count, users, refcnt, done, lost, poll>>
    BY <1>13 DEF KernelFills, bufVars, pollVars
  <2>2. PICK b \in kernel[t].queued :
          kernel' = [kernel EXCEPT ![t].queued = @ \ {b}, ![t].filled = @ \cup {b}]
    BY <1>13 DEF KernelFills
  <2>3. KernelMoves(t) /\ kernel'[t].queued = kernel[t].queued \ {b}
        /\ kernel'[t].filled = kernel[t].filled \cup {b}
    BY <1>1, <1>13, <2>2, FillIs
  <2>4. ASSUME NEW q \in Pairs
        PROVE  SameBuf(q) /\ SamePoll(q) /\ (InKernel(q)' <=> InKernel(q))
    <3>1. SameBuf(q) /\ SamePoll(q)
      BY <2>1 DEF SameBuf, SamePoll
    <3>2. q[1] \in Streams
      BY PairFacts
    <3>3. InKernel(q)' <=> InKernel(q)
      BY <2>2, <2>3, <3>2 DEF KernelMoves, InKernel
    <3> QED
      BY <3>1, <3>3
  <2> QED
    BY <1>7, <2>1, <2>4, NoPair
\* The users' steps.
<1>14. ASSUME NEW p \in Pairs, NEW u \in Users,
              (Dispatch(p) /\ u = "thread") \/ QBuf(p, u) \/ Finish(p, u)
       PROVE  CountInv(s)'
  <2>1. /\ \A v \in Users \ {u} : done'[<<p, v>>] = done[<<p, v>>]
        /\ \A q \in Pairs : q # p => SameBuf(q) /\ SamePoll(q) /\ (InKernel(q)' <=> InKernel(q))
        /\ Ungiven(p)' = Ungiven(p) /\ poll' = poll
        /\ ~QBufIoctl(p, u) => kernel' = kernel
        /\ ~Asked(p) /\ UserInv(p) /\ p[1] \in Streams /\ p[2] \in Buffers
        /\ (Placing(p)' <=> Placing(p))
    BY <1>4, <1>14, UserMoves, PairFacts DEF Bufs
  <2>2. ~(Filling /\ Current = p[1]) /\ ~Placing(p)
    BY <2>1 DEF Asked, Filling, Placing
  <2>3. CASE (Dispatch(p) /\ u = "thread") \/ QBuf(p, u) \/ BufDone(p, u)
    <3>1. /\ count' = count /\ kernel' = kernel /\ done[<<p, u>>] # "ioctl"
          /\ users[p] # {}
      BY <1>14, <2>1, <2>3 DEF Dispatch, QBuf, BufDone, UserInv
    <3>2. done'[<<p, u>>] # "ioctl"
      <4>1. (\E step \in {"checked", "queue", "no"} : At(p, u, step)) \/ done' = done
        BY <2>3 DEF Dispatch, QBuf, BufDone
      <4> QED
        BY <1>1, <3>1, <4>1, DoneIs
    <3>3. ~IsCountable(p)
      BY <3>1 DEF IsCountable
    <3>4. IsCounted(p)' <=> IsCounted(p)
      <4>1. (\E v \in Users : done'[<<p, v>>] = "ioctl") <=> \E v \in Users : done[<<p, v>>] = "ioctl"
        BY <2>1, <3>1, <3>2
      <4> QED
        BY <2>1, <3>1, <4>1 DEF IsCounted, InKernel
    <3> QED
      BY <1>7, <2>1, <3>1, <3>3, <3>4
  <2>4. CASE QBufCounts(p, u)
    <3>1. done[<<p, u>>] = "queue" /\ users' = users /\ kernel' = kernel
      BY <2>4 DEF QBufCounts
    <3>2. ~IsCountable(p)
      BY <3>1 DEF IsCountable
    <3>3. CASE CountUp(p[1]) /\ At(p, u, "ioctl")
      <4>1. done'[<<p, u>>] = "ioctl"
        BY <1>1, <3>3, DoneIs
      <4>2. users[p] = {} /\ Ungiven(p) = 0 /\ \A v \in Users \ {u} : done[<<p, v>>] = "no"
        BY <2>1, <3>1 DEF UserInv
      <4>3. ~(poll.buf = p /\ poll.at = "counted")
        BY <1>1, <3>1, PairFacts DEF PollInv
      <4>4. IsCountable(p)'
        BY <2>1, <3>1, <4>1, <4>2, <4>3 DEF IsCountable
      <4>5. ~CountDown(p[1])
        <5>1. count[p[1]] \in Int
          BY <1>1, <2>1
        <5> QED
          BY <1>1, <2>1, <3>3, <5>1, Counters
      <4> QED
        BY <1>8, <2>1, <2>2, <3>2, <3>3, <4>4, <4>5
    <3>4. CASE At(p, u, "no") /\ UNCHANGED count
      <4>1. done'[<<p, u>>] = "no"
        BY <1>1, <3>4, DoneIs
      <4>2. IsCounted(p)' <=> IsCounted(p)
        <5>1. (\E v \in Users : done'[<<p, v>>] = "ioctl") <=> \E v \in Users : done[<<p, v>>] = "ioctl"
          BY <2>1, <3>1, <4>1
        <5> QED
          BY <2>1, <3>1, <5>1 DEF IsCounted, InKernel
      <4>3. count'[s] = count[s]
        BY <3>4
      <4> QED
        BY <1>7, <2>1, <3>2, <4>2, <4>3
    <3> QED
      BY <2>4, <3>3, <3>4 DEF QBufCounts
  <2>5. CASE QBufIoctl(p, u)
    <3>1. At(p, u, "no") /\ done[<<p, u>>] = "ioctl" /\ users' = users
      BY <2>5 DEF QBufIoctl
    <3>2. done'[<<p, u>>] = "no"
      BY <1>1, <3>1, DoneIs
    <3>3. IsCounted(p)
      BY <3>1 DEF IsCounted
    <3>4. ~InKernel(p) /\ users[p] = {} /\ \A v \in Users \ {u} : done[<<p, v>>] = "no"
      BY <2>1, <3>1 DEF UserInv
    <3>5. \A v \in Users : done'[<<p, v>>] = "no"
      BY <2>1, <3>2, <3>4
    <3>6. CASE UNCHANGED count
      <4>1. IsCountable(p) => IsCountable(p)'
        BY <2>1, <3>1, <3>5 DEF IsCountable
      <4>2. count'[s] = count[s]
        BY <3>6
      <4> QED
        BY <1>7, <2>1, <2>2, <3>3, <4>1, <4>2
    <3>7. CASE CountDown(p[1]) /\ UNCHANGED kernel
      <4>1. ~InKernel(p)'
        BY <3>4, <3>7 DEF InKernel
      <4>2. ~(poll.buf = p /\ poll.at = "read")
        BY <1>1, <3>1, PairFacts DEF PollInv
      <4>3. ~IsCounted(p)'
        BY <2>1, <2>2, <3>5, <4>1, <4>2 DEF IsCounted
      <4>4. ~CountUp(p[1])
        <5>1. count[p[1]] \in Int
          BY <1>1, <2>1
        <5> QED
          BY <1>1, <2>1, <3>7, <5>1, Counters
      <4> QED
        BY <1>8, <2>1, <2>2, <3>3, <3>7, <4>3, <4>4
    <3> QED
      BY <2>5, <3>6, <3>7 DEF QBufIoctl
  <2> QED
    BY <1>14, <2>3, <2>4, <2>5 DEF Finish
<1>15. ASSUME NEW p \in Pairs, Dispatch(p)
       PROVE  CountInv(s)'
  <2>1. "thread" \in Users
    BY DEF Users
  <2> QED
    BY <1>14, <1>15, <2>1
<1> QED
  BY <1>10, <1>11, <1>12, <1>13, <1>14, <1>15 DEF PollThread

-----------------------------------------------------------------------------
(* The lost buffers.                                                       *)

\* A lost buffer that a step does not take up stays with nobody.
LEMMA LostAlone ==
  ASSUME NEW p \in Pairs, Gone(p), users'[p] = {},
         \A u \in Users : done'[<<p, u>>] = done[<<p, u>>],
         InKernel(p)' => InKernel(p), Filled(p)' => Filled(p),
         poll'.buf # p \/ poll' = poll
  PROVE  Gone(p)'
<1>1. Ungiven(p)' = 0
  BY DEF Gone, Ungiven, Refs
<1> QED
  BY <1>1 DEF Gone, Filled

\* The caller does not touch it before it asks the kernel for the stream's buffers.
LEMMA CallLost ==
  ASSUME Places, Bufs, LostInv, Next, CallGoesOn, NEW p \in lost'
  PROVE  p \in Pairs /\ Gone(p)'
<1>1. /\ Types /\ CallInv /\ setup' = setup /\ kernel \in [Streams -> KernelSide]
      /\ users \in [Pairs -> SUBSET Users]
  BY TypesStep DEF Places, Types, BufTypes
<1>2. p \in lost /\ (RequestBuf => lost' = lost \/ p \notin Of(Current))
  BY DEF CallGoesOn, GetBuf, RequestBuf, QueueCounts, QueueIoctl, Launch, StreamOn, StreamOff,
         Synced, Join, UnregBuf, PutBuf, bufVars
<1>3. p \in Pairs /\ Gone(p)
  BY <1>2 DEF LostInv
<1>4. done' = done /\ poll' = poll /\ Current \in Streams /\ caller.at \notin {"none", "lost"}
  BY <1>1, CallerGoes
<1>5. p[1] \in Streams /\ p[2] \in Buffers /\ users[p] = {}
  BY <1>3, PairFacts DEF Gone
<1>6. CASE p[1] # Current
  <2>1. users'[p] = users[p] /\ kernel'[p[1]] = kernel[p[1]]
    BY <1>1, <1>3, <1>6, CallFrame DEF SameBuf
  <2>2. ~Filled(p)'
    <3>1. Filling' => Current' = Current
      BY <1>1, CallerGoes DEF Filling
    <3> QED
      BY <1>6, <3>1, <1>1 DEF Filled
  <2> QED
    BY <1>3, <1>4, <1>5, <2>1, <2>2, LostAlone DEF InKernel
<1>7. CASE p[1] = Current
  <2>1. ~Filling /\ p \in Of(Current)
    BY <1>3, <1>7 DEF Gone, Of
  <2>2. users'[p] = {}
    <3>1. \/ users' = users
          \/ users' = [q \in Pairs |-> IF q[1] = Current THEN {} ELSE users[q]]
      BY <1>2, <2>1 DEF CallGoesOn, GetBuf, RequestBuf, QueueCounts, QueueIoctl, Launch,
         StreamOn, StreamOff, Synced, Join, UnregBuf, PutBuf, bufVars, Of
    <3> QED
      BY <1>3, <1>5, <1>7, <3>1
  <2>3. InKernel(p)' => InKernel(p)
    <3>1. ~QueueIoctl
      BY <2>1 DEF QueueIoctl, Filling
    <3>2. \/ kernel' = kernel
          \/ kernel' = [kernel EXCEPT ![Current].streaming = TRUE]
          \/ kernel' = [kernel EXCEPT ![Current] = [Quiet EXCEPT !.requested = TRUE]]
          \/ kernel' = [kernel EXCEPT ![Current] = Quiet]
      BY <3>1 DEF CallGoesOn, GetBuf, RequestBuf, QueueCounts, Launch, StreamOn, StreamOff,
         Synced, Join, UnregBuf, PutBuf
    <3>3. CASE kernel' = kernel
      BY <3>3 DEF InKernel
    <3>4. CASE kernel' = [kernel EXCEPT ![Current].streaming = TRUE]
      BY <1>1, <1>4, <1>7, <3>4, OnIs DEF InKernel
    <3>5. CASE \/ kernel' = [kernel EXCEPT ![Current] = [Quiet EXCEPT !.requested = TRUE]]
               \/ kernel' = [kernel EXCEPT ![Current] = Quiet]
      <4>1. kernel'[p[1]] \in {[Quiet EXCEPT !.requested = TRUE], Quiet}
        BY <1>1, <1>4, <1>7, <3>5
      <4>2. kernel'[p[1]].queued = {} /\ kernel'[p[1]].filled = {}
        BY <4>1 DEF Quiet
      <4> QED
        BY <4>2 DEF InKernel
    <3> QED
      BY <3>2, <3>3, <3>4, <3>5
  <2>4. ~Filled(p)'
    <3>1. ASSUME Filling' PROVE RequestBuf /\ lost' = lost \ Of(Current)
      <4>1. ~QueueCounts /\ ~QueueIoctl /\ ~Launch
        BY <2>1 DEF QueueCounts, QueueIoctl, Launch, Filling
      <4>2. \A a : Go(a) => caller'.at = a
        BY <1>1, <1>4, GoIs DEF Go
      <4>3. \A a : NextStream(a) => caller'.at \in {"none", a}
        BY <1>1, <1>4, NextStreamIs DEF NoCall
      <4>4. ~GiveUp
        BY <3>1 DEF GiveUp, Filling
      <4>5. RequestBuf
        <5>1. ~GetBuf /\ ~Join
          BY <3>1, <4>2, <4>4 DEF GetBuf, Join, NoCall, Filling
        <5>2. ~StreamOn /\ ~StreamOff /\ ~Synced
          BY <3>1, <4>2, <4>3 DEF StreamOn, StreamOff, Synced, Filling
        <5>3. ~UnregBuf /\ ~PutBuf
          <6>1. caller' = [caller EXCEPT !.at = "put", !.i = 1] => caller'.at = "put"
            BY <1>1, <1>4, CalledIs
          <6> QED
            BY <3>1, <4>2, <4>3, <6>1 DEF UnregBuf, PutBuf, Filling
        <5> QED
          BY <4>1, <5>1, <5>2, <5>3 DEF CallGoesOn
      <4> QED
        BY <4>4, <4>5 DEF RequestBuf
    <3> QED
      BY <2>1, <3>1 DEF Filled
  <2> QED
    BY <1>3, <1>4, <2>2, <2>3, <2>4, LostAlone
<1> QED
  BY <1>3, <1>6, <1>7

\* Neither does the poll thread, which may lose the frame it reads.
LEMMA PollLost ==
  ASSUME Places, Bufs, LostInv, Next, PollThread, NEW p \in lost'
  PROVE  p \in Pairs /\ Gone(p)'
<1>1. /\ Types /\ StateInv /\ PollInv /\ setup' = setup /\ kernel \in [Streams -> KernelSide]
      /\ users \in [Pairs -> SUBSET Users]
      /\ poll \in [at : {"poll", "loop", "read", "counted", "give", "call"},
                   ready : SUBSET Streams, buf : Pairs \cup {<< >>}]
  BY TypesStep DEF Places, Types, BufTypes, PollTypes
<1>2. UNCHANGED <<state, caller, done>>
  BY DEF PollThread, PollCommand, PollReturns, PollLoopEnds, DataNotify, ReadMsmFrame,
         CountReferences, NotifyChannel, NotifyThread, bufVars, chVars
<1>3. Current' = Current
  BY <1>1, <1>2, SameCurrent
<1>4. lost' = lost \/ (ReadMsmFrame /\ Lose(poll.buf))
  BY DEF PollThread, PollCommand, PollReturns, PollLoopEnds, DataNotify, ReadMsmFrame,
         CountReferences, NotifyChannel, NotifyThread, bufVars
<1>5. CASE p \notin lost
  <2>1. ReadMsmFrame /\ p = poll.buf
    BY <1>4, <1>5 DEF Lose
  <2>2. poll.at = "read" /\ users' = users /\ kernel' = kernel
    BY <2>1 DEF ReadMsmFrame
  <2>3. p \in Pairs /\ p # << >>
    BY <1>1, <2>1, <2>2, NoPair DEF PollInv
  <2>4. poll'.buf # p
    <3>1. poll'.at = "loop" \/ lost' = lost
      BY <1>1, <2>1 DEF ReadMsmFrame
    <3>2. poll' = [poll EXCEPT !.at = "loop", !.buf = << >>]
      BY <1>5, <2>1 DEF ReadMsmFrame
    <3> QED
      BY <1>1, <2>3, <3>2
  <2>5. users[p] = {} /\ (\A u \in Users : done[<<p, u>>] = "no") /\ UserInv(p)
    BY <1>1, <2>1, <2>2, <2>3 DEF PollInv, Bufs
  <2>6. ~InKernel(p)
    BY <2>1, <2>2, <2>5 DEF UserInv
  <2>7. ~(Filling /\ Current = p[1])
    <3>1. p[1] \in Streams
      BY <2>3, PairFacts
    <3> QED
      BY <2>1, <2>3, <3>1, FillingAlone
  <2>8. Ungiven(p)' = 0
    BY <2>4 DEF Ungiven
  <2> QED
    BY <1>2, <1>3, <2>2, <2>3, <2>4, <2>5, <2>6, <2>7, <2>8 DEF Gone, InKernel, Filling
<1>6. CASE p \in lost
  <2>1. p \in Pairs /\ Gone(p) /\ p # << >> /\ p[1] \in Streams /\ p = <<p[1], p[2]>>
    BY <1>6, PairFacts DEF LostInv
  <2>2. users[p] = {} /\ ~InKernel(p) /\ Ungiven(p) = 0 /\ (poll.buf = p => poll.at = "call")
    BY <2>1 DEF Gone
  <2>3. Filled(p)' => Filled(p)
    BY <1>2, <1>3 DEF Filled, Filling
  <2>4. ASSUME poll'.buf # p \/ poll' = poll, users'[p] = {}, InKernel(p)' => InKernel(p)
        PROVE  Gone(p)'
    <3>1. \A u \in Users : done'[<<p, u>>] = done[<<p, u>>]
      BY <1>2
    <3> QED
      BY <2>1, <2>3, <2>4, <3>1, LostAlone
  <2>5. CASE PollCommand
    <3>1. poll' = poll /\ users' = users /\ kernel' = kernel
      BY <2>5 DEF PollCommand, bufVars
    <3>2. InKernel(p)' => InKernel(p)
      BY <3>1 DEF InKernel
    <3> QED
      BY <2>1, <2>2, <2>4, <3>1, <3>2
  <2>6. CASE PollReturns \/ PollLoopEnds
    <3>1. poll'.buf = << >>
      <4>1. CASE PollReturns
        <5>1. poll.buf = << >>
          BY <1>1, <4>1 DEF PollReturns, PollInv
        <5>2. poll'.buf = poll.buf
          BY <1>1, <4>1 DEF PollReturns
        <5> QED
          BY <5>1, <5>2
      <4>2. CASE PollLoopEnds
        BY <4>2 DEF PollLoopEnds, Polling
      <4> QED
        BY <2>6, <4>1, <4>2
    <3> QED
      BY <2>1, <2>2, <2>4, <2>6, <3>1 DEF PollReturns, PollLoopEnds, bufVars, InKernel
  <2>7. CASE DataNotify
    <3>1. users' = users /\ poll.buf = << >>
      BY <1>1, <2>7 DEF DataNotify, bufVars, PollInv
    <3>2. PICK t \in poll.ready :
            \/ \E b \in kernel[t].filled :
                 /\ kernel' = [kernel EXCEPT ![t].filled = @ \ {b}]
                 /\ poll' = [at |-> "read", ready |-> poll.ready \ {t}, buf |-> <<t, b>>]
            \/ poll' = [poll EXCEPT !.ready = @ \ {t}] /\ UNCHANGED kernel
      BY <2>7 DEF DataNotify
    <3>3. CASE poll' = [poll EXCEPT !.ready = @ \ {t}] /\ UNCHANGED kernel
      <4>1. poll'.buf = << >>
        BY <1>1, <3>1, <3>3
      <4> QED
        BY <2>1, <2>2, <2>4, <3>1, <3>3, <4>1 DEF InKernel
    <3>4. ASSUME NEW b \in kernel[t].filled,
                 kernel' = [kernel EXCEPT ![t].filled = @ \ {b}],
                 poll' = [at |-> "read", ready |-> poll.ready \ {t}, buf |-> <<t, b>>]
          PROVE  Gone(p)'
      <4>1. poll'.buf # p
        <5>1. poll'.buf = <<t, b>>
          BY <3>4
        <5>2. InKernel(<<t, b>>)
          BY <3>4 DEF InKernel
        <5> QED
          BY <2>2, <5>1, <5>2
      <4>2. t \in Streams
        BY <1>1
      <4>3. KernelMoves(t) /\ kernel'[t].queued = kernel[t].queued
            /\ kernel'[t].filled = kernel[t].filled \ {b}
        BY <1>1, <3>4, <4>2, TakeIs
      <4>4. InKernel(p)' => InKernel(p)
        BY <2>1, <4>3 DEF InKernel, KernelMoves
      <4> QED
        <5>1. users'[p] = {}
          BY <2>2, <3>1
        <5> QED
          BY <2>4, <4>1, <4>4, <5>1
    <3> QED
      BY <2>1, <3>2, <3>3, <3>4
  <2>8. CASE ReadMsmFrame \/ CountReferences \/ NotifyChannel
    <3>1. poll.buf # p /\ kernel' = kernel /\ poll'.buf \in {poll.buf, << >>}
      BY <1>1, <2>2, <2>8 DEF ReadMsmFrame, CountReferences, NotifyChannel
    <3>2. users'[p] = users[p]
      BY <1>1, <2>1, <2>8, <3>1 DEF ReadMsmFrame, CountReferences, NotifyChannel
    <3> QED
      BY <2>1, <2>2, <2>4, <3>1, <3>2 DEF InKernel
  <2>9. CASE NotifyThread
    <3>1. poll.at = "call" /\ kernel' = kernel /\ poll'.buf = << >>
          /\ users' = [users EXCEPT ![poll.buf] = IF poll.buf[1] \in thread THEN @ \cup {"thread"} ELSE @]
      BY <1>1, <2>9 DEF NotifyThread
    <3>2. poll.buf = p => p[1] \notin thread
      BY <1>1, <2>2, <3>1 DEF Ungiven, StateInv
    <3>3. users'[p] = users[p]
      BY <1>1, <2>1, <3>1, <3>2
    <3> QED
      BY <2>1, <2>2, <2>4, <3>1, <3>3 DEF InKernel
  <2> QED
    BY <2>1, <2>5, <2>6, <2>7, <2>8, <2>9 DEF PollThread
<1> QED
  BY <1>5, <1>6

\* Nor its users, of whom it has none; the last user of a buffer may lose it.
LEMMA UserLost ==
  ASSUME Places, Bufs, LostInv, Next, NEW q \in Pairs, NEW u \in Users,
         (Dispatch(q) /\ u = "thread") \/ QBuf(q, u) \/ Finish(q, u),
         NEW p \in lost'
  PROVE  p \in Pairs /\ Gone(p)'
<1>1. /\ UNCHANGED <<setup, state, caller, thread, poll>> /\ Current' = Current
      /\ Ungiven(q)' = Ungiven(q)
      /\ \A v \in Users \ {u} : done'[<<q, v>>] = done[<<q, v>>]
      /\ \A r \in Pairs \ {q} : SameBuf(r) /\ (InKernel(r)' <=> InKernel(r))
      /\ ~QBufIoctl(q, u) => kernel' = kernel
      /\ ~Filled(q)'
  BY UserMoves
<1>2. lost' = lost \/ lost' = lost \cup {q}
  BY DEF Dispatch, QBuf, Finish, BufDone, QBufCounts, QBufIoctl, Lose
<1>3. CASE p # q
  <2>1. p \in Pairs /\ Gone(p)
    BY <1>2, <1>3 DEF LostInv
  <2>2. SameBuf(p) /\ (InKernel(p)' <=> InKernel(p)) /\ users[p] = {}
    BY <1>1, <1>3, <2>1 DEF Gone
  <2>3. Filled(p)' => Filled(p)
    BY <1>1 DEF Filled, Filling
  <2> QED
    BY <1>1, <2>1, <2>2, <2>3, LostAlone DEF SameBuf
<1>4. CASE p = q
  <2>1. Types /\ PollInv /\ UserInv(q) /\ q # << >> /\ "thread" \in Users
    BY PairFacts DEF Places, Bufs, Users
  <2>2. q \notin lost
    BY <2>1 DEF LostInv, Gone, Dispatch, QBuf, Finish, BufDone, QBufCounts, QBufIoctl
  <2>3. /\ Lose(q) /\ At(q, u, "no") /\ kernel' = kernel /\ users' = users
        /\ done[<<q, u>>] \in {"queue", "ioctl"}
    BY <1>4, <2>2 DEF Dispatch, QBuf, Finish, BufDone, QBufCounts, QBufIoctl
  <2>4. /\ users[q] = {} /\ Ungiven(q) = 0 /\ ~InKernel(q)
        /\ \A v \in Users \ {u} : done[<<q, v>>] = "no"
    BY <2>1, <2>3 DEF UserInv
  <2>5. done'[<<q, u>>] = "no"
    BY <2>1, <2>3, DoneIs
  <2>6. poll.buf = q => poll.at = "call"
    BY <2>1, <2>3 DEF PollInv
  <2> QED
    BY <1>1, <1>4, <2>3, <2>4, <2>5, <2>6 DEF Gone, InKernel, Filled
<1> QED
  BY <1>3, <1>4

\* Every step leaves the lost buffers with nobody.
LEMMA LostStep ==
  ASSUME Places, Bufs, LostInv, Next
  PROVE  LostInv'
<1> SUFFICES ASSUME NEW p \in lost' PROVE p \in Pairs /\ Gone(p)'
  BY DEF LostInv, Gone, Pairs
<1>1. ASSUME Start \/ Stop \/ \E s \in Streams : KernelFills(s)
      PROVE  p \in Pairs /\ Gone(p)'
  <2>1. lost' = lost /\ users' = users /\ done' = done /\ poll' = poll
    BY <1>1 DEF Start, Stop, KernelFills, bufVars, pollVars
  <2>2. p \in Pairs /\ Gone(p) /\ p[1] \in Streams
    BY <2>1, PairFacts DEF LostInv
  <2>3. CASE Start \/ Stop
    <3>1. kernel' = kernel /\ ~Filled(p)'
      BY <2>3 DEF Start, Stop, Filled, Filling
    <3> QED
      BY <2>1, <2>2, <3>1, LostAlone DEF InKernel, Gone
  <2>4. ASSUME NEW s \in Streams, KernelFills(s)
        PROVE  Gone(p)'
    <3>1. PICK b \in kernel[s].queued :
            kernel' = [kernel EXCEPT ![s].queued = @ \ {b}, ![s].filled = @ \cup {b}]
      BY <2>4 DEF KernelFills
    <3>2. Types /\ UNCHANGED <<setup, state, caller>>
      BY <2>4 DEF KernelFills, chVars, Places
    <3>3. KernelMoves(s) /\ kernel'[s].queued = kernel[s].queued \ {b}
          /\ kernel'[s].filled = kernel[s].filled \cup {b}
      BY <2>4, <3>1, <3>2, FillIs
    <3>4. InKernel(p)' => InKernel(p)
      BY <2>2, <3>1, <3>3 DEF InKernel, KernelMoves
    <3>5. Filled(p)' => Filled(p)
      BY <3>2, SameCurrent DEF Filled, Filling
    <3> QED
      BY <2>1, <2>2, <3>4, <3>5, LostAlone DEF Gone
  <2> QED
    BY <1>1, <2>2, <2>3, <2>4
<1>2. ASSUME NEW q \in Pairs, Dispatch(q)
      PROVE  p \in Pairs /\ Gone(p)'
  <2>1. "thread" \in Users
    BY DEF Users
  <2> QED
    BY <1>2, <2>1, UserLost
<1> QED
  BY <1>1, <1>2, CallLost, PollLost, UserLost DEF Next

-----------------------------------------------------------------------------
(* The theorems.                                                           *)

\* The inductive invariant, in the form the proofs use.
IInv == Places /\ Bufs /\ LostInv /\ \A s \in Streams : CountInv(s)

\* The invariant holds in the first state,
LEMMA InitInv == Init => IInv
<1> SUFFICES ASSUME Init PROVE IInv
  OBVIOUS
<1>1. Places
  BY InitPlaces
<1>2. /\ caller.at = "none" /\ poll.buf = << >>
      /\ state = [s \in Streams |-> "CFG"] /\ kernel = [s \in Streams |-> Quiet]
      /\ users = [p \in Pairs |-> {}] /\ refcnt = [p \in Pairs |-> 0]
      /\ done = [d \in Pairs \X Users |-> "no"] /\ count = [s \in Streams |-> 0]
  BY DEF Init, Polling, NoCall
<1>3. ASSUME NEW p \in Pairs
      PROVE  /\ UserInv(p) /\ RefInv(p) /\ LossInv(p)
             /\ ~IsCounted(p)
  <2>1. p[1] \in Streams /\ p # << >>
    BY PairFacts
  <2>2. /\ state[p[1]] = "CFG" /\ users[p] = {} /\ refcnt[p] = 0 /\ poll.buf # p
        /\ \A u \in Users : done[<<p, u>>] = "no"
    BY <1>2, <2>1
  <2>3. kernel[p[1]].queued = {} /\ kernel[p[1]].filled = {} /\ ~kernel[p[1]].streaming
    BY <1>2, <2>1 DEF Quiet
  <2>4. ~InKernel(p) /\ Ungiven(p) = 0
    BY <2>2, <2>3 DEF InKernel, Ungiven
  <2>5. UserInv(p)
    BY <1>2, <2>2, <2>3, <2>4 DEF UserInv
  <2>6. RefInv(p)
    BY <1>2, <2>2 DEF RefInv, Filling
  <2>7. LossInv(p)
    BY <1>2, <2>2, <2>3, <2>4 DEF LossInv
  <2>8. ~IsCounted(p)
    BY <1>2, <2>2, <2>4 DEF IsCounted, Placing
  <2> QED
    BY <2>5, <2>6, <2>7, <2>8
<1>4. Bufs
  BY <1>3 DEF Bufs
<1>5. ASSUME NEW s \in Streams
      PROVE  CountInv(s)
  <2>1. Counted(s) = {}
    <3>1. \A b \in Buffers : <<s, b>> \in Pairs
      BY DEF Pairs
    <3> QED
      BY <1>3, <3>1 DEF Counted
  <2>2. Cardinality(Counted(s)) = 0 /\ count[s] = 0 /\ Cardinality(Countable(s)) \in Nat
    BY <1>2, <2>1, FS_EmptySet, Sets, Sizes
  <2> QED
    BY <1>2, <2>2 DEF CountInv, Filling
<1>6. LostInv
  BY DEF Init, LostInv
<1> QED
  BY <1>1, <1>4, <1>5, <1>6 DEF IInv

\* is kept by every step,
LEMMA StepInv == IInv /\ [Next]_vars => IInv'
<1>1. CASE UNCHANGED vars
  <2> SUFFICES ASSUME IInv PROVE IInv'
    OBVIOUS
  <2>1. /\ UNCHANGED <<setup, state, caller, starts, thread, kernel, poll>>
        /\ UNCHANGED <<count, refcnt, users, done, lost, poll_entries, poll_fds, pipe, synced>>
    BY <1>1 DEF vars, bufVars, pollVars, chVars
  <2>2. Current' = Current
    BY <2>1 DEF Current
  <2>3. Types' /\ CallInv'
    BY <2>1 DEF IInv, Places, Types, ChTypes, BufTypes, EntryTypes, PollTypes, CallInv
  <2>4. StateInv' /\ PollInv'
    BY <2>1, <2>2 DEF IInv, Places, StateInv, PollInv
  <2>5. ToQueue' = ToQueue
    BY <2>1, <2>2 DEF ToQueue
  <2>6. KernelInv'
    BY <2>1, <2>2, <2>5 DEF IInv, Places, KernelInv, Filling
  <2>7. Bufs'
    <3>1. ASSUME NEW p \in Pairs PROVE OneBuf(p)'
      <4>1. OneBuf(p) /\ Types
        BY DEF IInv, Places, Bufs, OneBuf
      <4>2. SameBuf(p) /\ SamePlace(p) /\ SamePoll(p)
        BY <2>1, <2>2 DEF SameBuf, SamePlace, SamePoll, Asked, Filled, Filling, Opened, InKernel
      <4> QED
        BY <2>1, <4>1, <4>2, Untouched
    <3> QED
      BY <3>1 DEF Bufs, OneBuf
  <2>8. ASSUME NEW s \in Streams PROVE CountInv(s)'
    <3>1. NextBuf' = NextBuf
      BY <2>5 DEF NextBuf
    <3>2. \A b \in Buffers : /\ IsCounted(<<s, b>>)' <=> IsCounted(<<s, b>>)
                             /\ IsCountable(<<s, b>>)' <=> IsCountable(<<s, b>>)
      BY <2>1, <2>2, <3>1 DEF IsCounted, IsCountable, Placing, InKernel, Ungiven, Refs
    <3> QED
      BY <2>1, <2>2, <3>2, CountSame DEF Fewer, Filling, IInv, Places
  <2>9. LostInv'
    <3>1. Pairs' = Pairs /\ \A p \in Pairs : Gone(p) => Gone(p)'
      BY <2>1, <2>2 DEF Gone, Filling, InKernel, Ungiven, Refs, Pairs
    <3> QED
      BY <2>1, <3>1 DEF IInv, LostInv
  <2> QED
    BY <2>3, <2>4, <2>6, <2>7, <2>8, <2>9 DEF IInv, Places
<1>2. CASE Next
  <2> SUFFICES ASSUME IInv PROVE IInv'
    OBVIOUS
  <2>1. Places /\ Bufs /\ LostInv /\ \A s \in Streams : CountInv(s)
    BY DEF IInv
  <2>2. Places'
    BY <1>2, <2>1, TypesStep, CallStep, StateStep, KernelStep, PollStep DEF Places
  <2>3. Bufs'
    BY <1>2, <2>1, BufsStep
  <2>4. ASSUME NEW s \in Streams
        PROVE  CountInv(s)'
    <3>1. CASE Start \/ Stop
      <4>1. /\ UNCHANGED <<setup, state, bufVars, kernel, pollVars>>
            /\ caller.at = "none" /\ caller'.at \in {"get", "off"}
        BY <3>1 DEF Start, Stop, NoCall
      <4>2. \A b \in Buffers :
              /\ IsCounted(<<s, b>>)' => IsCounted(<<s, b>>)
              /\ IsCountable(<<s, b>>) => IsCountable(<<s, b>>)'
        BY <4>1 DEF IsCounted, IsCountable, Placing, InKernel, Ungiven, Refs, bufVars, pollVars
      <4>3. count'[s] = count[s] /\ ~Filling'
        BY <4>1 DEF bufVars, Filling
      <4> QED
        BY <2>1, <4>2, <4>3, CountSame DEF Fewer, Places
    <3>2. CASE CallGoesOn
      BY <1>2, <2>1, <3>2, CallCounts
    <3> QED
      BY <1>2, <2>1, <3>1, <3>2, OtherCounts DEF Next
  <2>5. LostInv'
    BY <1>2, <2>1, LostStep
  <2> QED
    BY <2>2, <2>3, <2>4, <2>5 DEF IInv
<1> QED
  BY <1>1, <1>2

\* and so always holds.
LEMMA Invariant == Spec => []IInv
BY InitInv, StepInv, PTL DEF Spec

\* The invariant has the types in it.
LEMMA InvTypes == IInv => TypeOK
<1> SUFFICES ASSUME IInv PROVE TypeOK
  OBVIOUS
<1>1. Types /\ CallInv /\ PollInv /\ (\A s \in Streams : CountInv(s)) /\ lost \subseteq Pairs
  BY DEF IInv, Places, LostInv
<1>2. \A s \in Streams : count[s] \in 0 .. Cardinality(Buffers)
  <2> TAKE s \in Streams
  <2>1. count[s] \in Int /\ Cardinality(Counted(s)) <= count[s] /\ count[s] <= Cardinality(Countable(s))
    BY <1>1 DEF Types, BufTypes, CountInv
  <2>2. /\ Cardinality(Counted(s)) \in Nat /\ Cardinality(Countable(s)) \in Nat
        /\ Cardinality(Countable(s)) <= Cardinality(Buffers) /\ Cardinality(Buffers) \in Nat
    BY Sets, Sizes
  <2> QED
    BY <2>1, <2>2
<1>3. caller.op \in {"none", "start", "undo", "stop"} /\ caller.i \in 0 .. Len(setup.order)
  <2>1. Len(setup.order) \in Nat
    BY <1>1, OrderFacts DEF Types, ChTypes
  <2> QED
    BY <1>1, <2>1 DEF CallInv, NoOne, NoCall
<1>4. \A s \in Streams : kernel[s] \in KernelSide
  BY <1>1 DEF Types
<1>5. \A s \in Streams :
        /\ kernel[s].requested \in BOOLEAN /\ kernel[s].streaming \in BOOLEAN
        /\ kernel[s].queued \subseteq Buffers /\ kernel[s].filled \subseteq Buffers
  BY <1>4 DEF KernelSide
<1>6. /\ poll.at \in {"poll", "loop", "read", "counted", "give", "call"}
      /\ poll.ready \subseteq Streams /\ poll.buf \in Pairs \cup {<< >>}
  BY <1>1 DEF Types, PollTypes
<1> QED
  BY <1>1, <1>2, <1>3, <1>5, <1>6 DEF TypeOK, Types, ChTypes, BufTypes, EntryTypes

\* The types; among them, a stream's count of queued buffers, changed on three threads
\* and taken back when the kernel refuses a buffer, is never below zero nor above the
\* buffers there are.
THEOREM TypesHold == Spec => []TypeOK
BY Invariant, InvTypes, PTL

\* A buffer goes back to the kernel when the last of its users has given it back and not
\* before; and once the stream is on none is lost but to a failing cache operation or a
\* failing VIDIOC_QBUF.
THEOREM BuffersKept == Spec => []BuffersAccounted
<1>1. IInv => BuffersAccounted
  <2> SUFFICES ASSUME IInv, NEW p \in Pairs
               PROVE  /\ state[p[1]] = "ACTIVE" => refcnt[p] = Cardinality(users[p]) + Ungiven(p)
                      /\ p[2] \in kernel[p[1]].queued \cup kernel[p[1]].filled =>
                           users[p] = {} /\ Ungiven(p) = 0 /\ p \notin lost
                      /\ kernel[p[1]].streaming /\ users[p] = {} /\ p[2] \in setup.buffers[p[1]] =>
                           \/ p[2] \in kernel[p[1]].queued \cup kernel[p[1]].filled
                           \/ poll.buf = p \/ \E u \in Users : done[<<p, u>>] # "no"
                           \/ p \in lost
                      /\ p \in lost => users[p] = {} /\ Ungiven(p) = 0
    BY DEF BuffersAccounted
  <2>1. UserInv(p) /\ RefInv(p) /\ LossInv(p)
    BY DEF IInv, Bufs
  <2>2. InKernel(p) <=> p[2] \in kernel[p[1]].queued \cup kernel[p[1]].filled
    BY DEF InKernel
  <2>3. state[p[1]] = "ACTIVE" => refcnt[p] = Cardinality(users[p]) + Ungiven(p)
    BY <2>1 DEF RefInv
  <2>4. InKernel(p) => users[p] = {} /\ Ungiven(p) = 0
    BY <2>1 DEF UserInv
  <2>5. kernel[p[1]].streaming /\ users[p] = {} /\ p[2] \in setup.buffers[p[1]] =>
          InKernel(p) \/ poll.buf = p \/ (\E u \in Users : done[<<p, u>>] # "no") \/ p \in lost
    BY <2>1 DEF LossInv
  <2>6. p \in lost => users[p] = {} /\ Ungiven(p) = 0 /\ ~InKernel(p)
    BY DEF IInv, LostInv, Gone
  <2> QED
    BY <2>2, <2>3, <2>4, <2>5, <2>6
<1> QED
  BY <1>1, Invariant, PTL
=============================================================================
