-------------------------- MODULE CmdThreadProofs ---------------------------
(***************************************************************************)
(* Proofs about QCameraCmdThread for any set of producers, any calls of    *)
(* the owner and any bounds.                                               *)
(***************************************************************************)
EXTENDS CmdThread, FiniteSetTheorems, TLAPS

\* Between exit() and launch() there is no worker.
Joined == ~cmd_pid => wpc = "none"

\* cmd_queue is never flushed while its owner lives: nothing is refused.
Inv == TypeOK /\ cmd_queue.active /\ Joined /\ Tokens

LEMMA CallsTyped == NextJob \in CallType /\ ExitCall \in CallType /\ OwnerCalls \subseteq CallType
  BY CallsAssumption DEF NextJob, ExitCall, CallType, Cmds

\* The set of posting threads is finite, so it has a size.
LEMMA PostingFinite == IsFiniteSet(Threads) /\ IsFiniteSet(Posting) /\ Cardinality(Posting) \in Nat
<1>1. IsFiniteSet(Threads)
  BY CallsAssumption, FS_Singleton, FS_Union DEF Threads
<1>2. IsFiniteSet(Posting)
  BY <1>1, FS_Subset DEF Posting
<1> QED  BY <1>1, <1>2, FS_CardinalityType

\* Type correctness is preserved by a step of the code.
LEMMA TypeInit == Init => TypeOK
<1> SUFFICES ASSUME Init PROVE TypeOK
  OBVIOUS
<1>1. NextJob \in CallType /\ Owner \in Threads
  BY CallsTyped DEF Threads
<1>2. cmd_queue \in QueueOf(Node)
  BY DEF Init, NewQueue, QueueOf
<1>3. held \in Node
  BY <1>1 DEF Init, Node
<1> QED BY <1>1, <1>2, <1>3 DEF Init, TypeOK

LEMMA PutType ==
  ASSUME TypeOK, NEW t \in Threads, NEW c \in CallType, Put(t, c)
  PROVE  TypeOK'
<1> DEFINE node == [call |-> c, from |-> t]
<1>1. node \in Node
  BY DEF Node
<1>2. cmd_queue' \in QueueOf(Node)
  <2>1. CASE c.prio
    <3>1. <<node>> \o cmd_queue.nodes \in Seq(Node)
      BY <1>1 DEF TypeOK, QueueOf
    <3> QED BY <2>1, <3>1 DEF Put, EnqueueWithPriority, TypeOK, QueueOf
  <2>2. CASE ~c.prio
    <3>1. Append(cmd_queue.nodes, node) \in Seq(Node)
      BY <1>1 DEF TypeOK, QueueOf
    <3> QED BY <2>2, <3>1 DEF Put, Enqueue, TypeOK, QueueOf
  <2> QED BY <2>1, <2>2
<1> QED BY <1>2 DEF Put, TypeOK

LEMMA TypeNext == TypeOK /\ [Next]_vars => TypeOK'
<1> SUFFICES ASSUME TypeOK, [Next]_vars PROVE TypeOK'
  OBVIOUS
<1> USE DEF TypeOK
<1>1. CASE Launch
  BY <1>1 DEF Launch
<1>2. CASE \E p \in Producers : ProducerSends(p)
  BY <1>2, CallsTyped, PutType DEF ProducerSends, Threads
<1>3. CASE \E c \in OwnerCalls : OwnerSends(c)
  BY <1>3, CallsTyped, PutType DEF OwnerSends, Threads
<1>4. CASE OwnerExits
  BY <1>4, CallsTyped, PutType DEF OwnerExits, Threads
<1>5. CASE \E t \in Threads : Caller(t)
  BY <1>5 DEF Caller, Post, SyncReturn
<1>6. CASE ExitReturn
  BY <1>6 DEF ExitReturn, Threads
<1>7. CASE Wake
  BY <1>7 DEF Wake
<1>8. CASE GetCmd
  <2>1. CASE CanDequeue(cmd_queue)
    <3>1. Head(cmd_queue.nodes) \in Node /\ Tail(cmd_queue.nodes) \in Seq(Node)
      BY <2>1 DEF CanDequeue, QueueOf
    <3> QED BY <1>8, <2>1, <3>1 DEF GetCmd, First, DequeueHead, QueueOf
  <2>2. CASE ~CanDequeue(cmd_queue)
    BY <1>8, <2>2 DEF GetCmd
  <2> QED BY <2>1, <2>2
<1>9. CASE RunCmd
  BY <1>9 DEF RunCmd
<1>10. CASE UNCHANGED vars
  BY <1>10 DEF vars
<1> QED BY <1>1, <1>2, <1>3, <1>4, <1>5, <1>6, <1>7, <1>8, <1>9, <1>10 DEF Next, Worker

\* A put adds one node and one thread about to announce it.
LEMMA PutInv ==
  ASSUME Inv, NEW t \in Threads, NEW c \in CallType, Put(t, c)
  PROVE  Inv'
<1>1. TypeOK'
  BY PutType DEF Inv
<1>2. cmd_queue'.active /\ Len(cmd_queue'.nodes) = Len(cmd_queue.nodes) + 1
  BY DEF Inv, Put, Enqueue, EnqueueWithPriority, TypeOK, QueueOf, Node
<1>3. Posting' = Posting \cup {t} /\ t \notin Posting
  BY DEF Inv, TypeOK, Put, Posting
<1>4. Cardinality(Posting') = Cardinality(Posting) + 1
  BY <1>3, PostingFinite, FS_AddElement
<1>5. cmd_sem' = cmd_sem /\ wpc' = wpc
  BY DEF Put
<1>6. Tokens'
  BY <1>2, <1>4, <1>5, PostingFinite DEF Inv, Tokens, TypeOK
<1>7. Joined'
  BY DEF Inv, Joined, Put
<1> QED BY <1>1, <1>2, <1>6, <1>7 DEF Inv

\* A post turns the announcement into a token.
LEMMA PostInv ==
  ASSUME Inv, NEW t \in Threads, Post(t)
  PROVE  Tokens' /\ cmd_queue'.active
<1>1. Posting' = Posting \ {t} /\ t \in Posting
  BY DEF Inv, TypeOK, Post, Posting
<1>2. Cardinality(Posting') = Cardinality(Posting) - 1
  BY <1>1, PostingFinite, FS_RemoveElement
<1> QED BY <1>2, PostingFinite DEF Inv, Post, Tokens, TypeOK

\* Steps that neither announce nor take anything leave Posting alone.
LEMMA OtherInv ==
  ASSUME Inv, UNCHANGED <<cmd_queue, cmd_sem>>, wpc' = "get" <=> wpc = "get",
         \A t \in Threads : pc'[t] = "post" <=> pc[t] = "post"
  PROVE  Tokens' /\ cmd_queue'.active
<1>1. Posting' = Posting
  BY DEF Posting
<1> QED BY <1>1 DEF Inv, Tokens

\* The count of announcements is inductive.
LEMMA InvNext == Inv /\ [Next]_vars => Inv'
<1> SUFFICES ASSUME Inv, [Next]_vars PROVE Inv'
  OBVIOUS
<1>0. TypeOK'
  BY TypeNext DEF Inv
<1>00. Joined'
  BY DEF Inv, TypeOK, Joined, Next, vars, Launch, ProducerSends, OwnerSends, OwnerExits,
         Put, Caller, Post, SyncReturn, ExitReturn, Worker, Wake, GetCmd, RunCmd
<1> SUFFICES Tokens' /\ cmd_queue'.active
  BY <1>0, <1>00 DEF Inv
<1>1. CASE Launch
  BY <1>1, OtherInv DEF Launch, Inv, Joined
<1>2. CASE \E p \in Producers : ProducerSends(p)
  BY <1>2, CallsTyped, PutInv DEF ProducerSends, Threads, Inv
<1>3. CASE \E c \in OwnerCalls : OwnerSends(c)
  BY <1>3, CallsTyped, PutInv DEF OwnerSends, Threads, Inv
<1>4. CASE OwnerExits
  BY <1>4, CallsTyped, PutInv DEF OwnerExits, Threads, Inv
<1>5. CASE \E t \in Threads : Caller(t)
  <2>1. PICK t \in Threads : Caller(t)
    BY <1>5
  <2>2. CASE Post(t)
    BY <2>2, PostInv
  <2>3. CASE SyncReturn(t)
    <3>1. \A u \in Threads : pc'[u] = "post" <=> pc[u] = "post"
      BY <2>3 DEF SyncReturn, Inv, TypeOK
    <3> QED BY <2>3, <3>1, OtherInv DEF SyncReturn
  <2> QED BY <2>1, <2>2, <2>3 DEF Caller
<1>6. CASE ExitReturn
  <2>1. \A u \in Threads : pc'[u] = "post" <=> pc[u] = "post"
    BY <1>6 DEF ExitReturn, Inv, TypeOK
  <2> QED BY <1>6, <2>1, OtherInv DEF ExitReturn
<1>7. CASE Wake
  <2>1. Posting' = Posting
    BY <1>7 DEF Wake, Posting
  <2> QED BY <1>7, <2>1, PostingFinite DEF Wake, Inv, Tokens, TypeOK
<1>8. CASE GetCmd
  <2>1. Posting' = Posting /\ cmd_sem' = cmd_sem
    BY <1>8 DEF GetCmd, Posting
  <2>2. cmd_queue.nodes # << >>
    BY <1>8, PostingFinite DEF GetCmd, Inv, Tokens, TypeOK, QueueOf
  <2>3. Len(cmd_queue'.nodes) = Len(cmd_queue.nodes) - 1 /\ cmd_queue'.active
    BY <1>8, <2>2 DEF GetCmd, CanDequeue, DequeueHead, Inv, TypeOK, QueueOf
  <2> QED BY <1>8, <2>1, <2>2, <2>3, PostingFinite
          DEF GetCmd, CanDequeue, Inv, Tokens, TypeOK
<1>9. CASE RunCmd
  BY <1>9, OtherInv DEF RunCmd
<1>10. CASE UNCHANGED vars
  BY <1>10, OtherInv DEF vars
<1> QED BY <1>1, <1>2, <1>3, <1>4, <1>5, <1>6, <1>7, <1>8, <1>9, <1>10 DEF Next, Worker

LEMMA InvInit == Init => Inv
<1> SUFFICES ASSUME Init PROVE Inv
  OBVIOUS
<1>1. Posting = {}
  BY DEF Init, Posting
<1>2. Tokens
  BY <1>1, FS_EmptySet DEF Init, Tokens, NewQueue
<1> QED BY <1>2, TypeInit DEF Init, Inv, Joined, NewQueue

\* Every variable keeps its type.
THEOREM TypesHold == Spec => []TypeOK
<1>1. Inv => TypeOK
  BY DEF Inv
<1> QED BY <1>1, InvInit, InvNext, PTL DEF Spec

\* Every node on the queue is announced exactly once, for any callers and any
\* interleaving of their puts and posts (sendCmd, getCmd).
THEOREM TokensMatchNodes == Spec => [](TypeOK /\ Tokens)
<1>1. Inv => TypeOK /\ Tokens
  BY DEF Inv
<1> QED BY <1>1, InvInit, InvNext, PTL DEF Spec

\* getCmd() never returns CAMERA_CMD_TYPE_NONE to a worker that was woken.
THEOREM WorkerFindsWork == Spec => []NeverEmptyHanded
<1>1. Inv => NeverEmptyHanded
  BY PostingFinite DEF Inv, Tokens, NeverEmptyHanded, TypeOK, QueueOf, IsEmpty
<1> QED BY <1>1, InvInit, InvNext, PTL DEF Spec

-----------------------------------------------------------------------------
(* The mailbox.  Its box holds the calls of the nodes on the queue; a      *)
(* worker that was woken and has not taken its node is still waiting.      *)

\* The calls of a list of nodes.
CallsOf(ns) == [i \in 1 .. Len(ns) |-> ns[i].call]

LEMMA CallsOfIs ==
  ASSUME NEW ns \in Seq(Node)
  PROVE  /\ CallsOf(ns) \in Seq(CallType) /\ Len(CallsOf(ns)) = Len(ns)
         /\ \A i \in 1 .. Len(ns) : CallsOf(ns)[i] = ns[i].call
<1>1. \A i \in 1 .. Len(ns) : ns[i] \in Node
  OBVIOUS
<1>2. \A n \in Node : n.call \in CallType
  BY DEF Node
<1>3. CallsOf(ns) \in [1 .. Len(ns) -> CallType]
  BY <1>1, <1>2 DEF CallsOf
<1>4. CallsOf(ns) \in Seq(CallType) /\ Len(CallsOf(ns)) = Len(ns)
  BY <1>3
<1> QED
  BY <1>4 DEF CallsOf

LEMMA SameCalls ==
  ASSUME NEW s \in Seq(CallType), NEW t \in Seq(CallType), Len(s) = Len(t),
         \A i \in 1 .. Len(s) : s[i] = t[i]
  PROVE  s = t
  OBVIOUS

\* The list operators of CameraQueue do to the calls what they do to the nodes.
LEMMA CallsOfEmpty == CallsOf(<< >>) = << >>
<1>1. << >> \in Seq(Node)
  OBVIOUS
<1>2. CallsOf(<< >>) \in Seq(CallType) /\ Len(CallsOf(<< >>)) = 0
  BY <1>1, CallsOfIs
<1> QED
  BY <1>2

LEMMA CallsOfAdded ==
  ASSUME NEW ns \in Seq(Node), NEW n \in Node
  PROVE  /\ CallsOf(Append(ns, n)) = Append(CallsOf(ns), n.call)
         /\ CallsOf(<<n>> \o ns) = <<n.call>> \o CallsOf(ns)
<1> DEFINE b == CallsOf(ns)
<1>1. n.call \in CallType
  BY DEF Node
<1>2. b \in Seq(CallType) /\ Len(b) = Len(ns) /\ \A i \in 1 .. Len(ns) : b[i] = ns[i].call
  BY CallsOfIs
<1> HIDE DEF b
<1>3. CallsOf(Append(ns, n)) = Append(b, n.call)
  <2> DEFINE u == Append(ns, n)
             s == CallsOf(u)
             t == Append(b, n.call)
  <2>1. u \in Seq(Node) /\ Len(u) = Len(ns) + 1
        /\ \A i \in 1 .. Len(ns) + 1 : u[i] = IF i = Len(ns) + 1 THEN n ELSE ns[i]
    OBVIOUS
  <2> HIDE DEF u
  <2>2. s \in Seq(CallType) /\ Len(s) = Len(ns) + 1
        /\ \A i \in 1 .. Len(ns) + 1 : s[i] = IF i = Len(ns) + 1 THEN n.call ELSE ns[i].call
    BY <2>1, CallsOfIs
  <2>3. t \in Seq(CallType) /\ Len(t) = Len(ns) + 1
        /\ \A i \in 1 .. Len(ns) + 1 : t[i] = IF i = Len(ns) + 1 THEN n.call ELSE ns[i].call
    BY <1>1, <1>2
  <2> HIDE DEF s, t
  <2>4. s = t
    BY <2>2, <2>3, SameCalls
  <2> QED
    BY <2>4 DEF s, t, u
<1>4. CallsOf(<<n>> \o ns) = <<n.call>> \o b
  <2> DEFINE u == <<n>> \o ns
             s == CallsOf(u)
             t == <<n.call>> \o b
  <2>1. u \in Seq(Node) /\ Len(u) = Len(ns) + 1
        /\ \A i \in 1 .. Len(ns) + 1 : u[i] = IF i = 1 THEN n ELSE ns[i - 1]
    OBVIOUS
  <2> HIDE DEF u
  <2>2. s \in Seq(CallType) /\ Len(s) = Len(ns) + 1
        /\ \A i \in 1 .. Len(ns) + 1 : s[i] = IF i = 1 THEN n.call ELSE ns[i - 1].call
    BY <2>1, CallsOfIs
  <2>3. t \in Seq(CallType) /\ Len(t) = Len(ns) + 1
        /\ \A i \in 1 .. Len(ns) + 1 : t[i] = IF i = 1 THEN n.call ELSE ns[i - 1].call
    BY <1>1, <1>2
  <2> HIDE DEF s, t
  <2>4. Len(s) = Len(t) /\ \A i \in 1 .. Len(s) : s[i] = t[i]
    BY <2>2, <2>3
  <2>5. s = t
    BY <2>2, <2>3, <2>4, SameCalls
  <2> QED
    BY <2>5 DEF s, t, u
<1> QED
  BY <1>3, <1>4 DEF b

LEMMA CallsOfTaken ==
  ASSUME NEW ns \in Seq(Node), ns # << >>
  PROVE  /\ CallsOf(ns) # << >> /\ Head(CallsOf(ns)) = Head(ns).call
         /\ CallsOf(Tail(ns)) = Tail(CallsOf(ns))
<1> DEFINE b == CallsOf(ns)
<1>1. b \in Seq(CallType) /\ Len(b) = Len(ns) /\ \A i \in 1 .. Len(ns) : b[i] = ns[i].call
  BY CallsOfIs
<1>2. Len(ns) # 0
  OBVIOUS
<1> HIDE DEF b
<1>3. b # << >> /\ Head(b) = Head(ns).call
  BY <1>1, <1>2
<1>4. CallsOf(Tail(ns)) = Tail(b)
  <2> DEFINE s == CallsOf(Tail(ns))
             t == Tail(b)
  <2>1. Tail(ns) \in Seq(Node) /\ Len(Tail(ns)) = Len(ns) - 1
        /\ \A i \in 1 .. Len(ns) - 1 : Tail(ns)[i] = ns[i + 1]
    BY <1>2
  <2>2. s \in Seq(CallType) /\ Len(s) = Len(ns) - 1
        /\ \A i \in 1 .. Len(ns) - 1 : s[i] = ns[i + 1].call
    BY <2>1, CallsOfIs
  <2>3. t \in Seq(CallType) /\ Len(t) = Len(ns) - 1
        /\ \A i \in 1 .. Len(ns) - 1 : t[i] = ns[i + 1].call
    BY <1>1, <1>2, <1>3
  <2> HIDE DEF s, t
  <2>4. s = t
    BY <2>2, <2>3, SameCalls
  <2> QED
    BY <2>4 DEF s, t
<1> QED
  BY <1>3, <1>4 DEF b

LEMMA MailboxInit == Init => Mailbox!Init
  BY CallsOfEmpty, CallsTyped DEF Init, Mailbox!Init, CallsOf, NewQueue

LEMMA PutSends ==
  ASSUME Inv, NEW t \in Threads, NEW c \in CallType, Put(t, c)
  PROVE  Mailbox!Next
<1> DEFINE n == [call |-> c, from |-> t]
           b == CallsOf(cmd_queue.nodes)
<1>1. n \in Node /\ n.call = c
  BY DEF Node
<1>2. cmd_queue.nodes \in Seq(Node) /\ cmd_queue.active
  BY DEF Inv, TypeOK, QueueOf
<1>3. cmd_queue'.nodes = IF c.prio THEN <<n>> \o cmd_queue.nodes ELSE Append(cmd_queue.nodes, n)
  BY <1>2 DEF Put, Enqueue, EnqueueWithPriority, Inv, TypeOK, QueueOf
<1> HIDE DEF n
<1>4. b' = IF c.prio THEN <<c>> \o b ELSE Append(b, c)
  BY <1>1, <1>2, <1>3, CallsOfAdded
<1>5. UNCHANGED <<wpc, held>>
  BY DEF Put
<1>6. Mailbox!Send(c)
  BY <1>4, <1>5 DEF Mailbox!Send, CallsOf
<1> QED
  BY <1>6 DEF Mailbox!Next

LEMMA MailboxNext ==
  ASSUME Inv, [Next]_vars
  PROVE  [Mailbox!Next]_(Mailbox!mvars)
<1> DEFINE b == CallsOf(cmd_queue.nodes)
<1>1. CASE Launch
  <2>1. Mailbox!Start
    BY <1>1 DEF Mailbox!Start, Launch, Inv, Joined
  <2> QED
    BY <2>1 DEF Mailbox!Next
<1>2. CASE \E p \in Producers : ProducerSends(p)
  BY <1>2, CallsTyped, PutSends DEF ProducerSends, Threads
<1>3. CASE \E c \in OwnerCalls : OwnerSends(c)
  BY <1>3, CallsTyped, PutSends DEF OwnerSends, Threads
<1>4. CASE OwnerExits
  BY <1>4, CallsTyped, PutSends DEF OwnerExits, Threads
<1>5. CASE GetCmd
  <2>1. cmd_queue.nodes # << >> /\ cmd_queue.nodes \in Seq(Node) /\ cmd_queue.active
    BY <1>5, PostingFinite DEF GetCmd, Inv, Tokens, TypeOK, QueueOf
  <2>2. /\ wpc = "get" /\ wpc' = "run" /\ held' = Head(cmd_queue.nodes)
        /\ cmd_queue'.nodes = Tail(cmd_queue.nodes)
    BY <1>5, <2>1 DEF GetCmd, CanDequeue, First, DequeueHead, Inv, TypeOK, QueueOf
  <2>3. b # << >> /\ held'.call = Head(b) /\ b' = Tail(b)
    BY <2>1, <2>2, CallsOfTaken
  <2>4. Mailbox!Take
    BY <2>2, <2>3 DEF Mailbox!Take, CallsOf
  <2> QED
    BY <2>4 DEF Mailbox!Next
<1>6. CASE RunCmd
  <2>1. Mailbox!Finish
    BY <1>6 DEF Mailbox!Finish, RunCmd
  <2> QED
    BY <2>1 DEF Mailbox!Next
<1>7. CASE (\E t \in Threads : Caller(t)) \/ ExitReturn \/ Wake \/ UNCHANGED vars
  <2>1. /\ UNCHANGED <<cmd_queue, held>>
        /\ (wpc' = wpc \/ (wpc = "wait" /\ wpc' = "get"))
    BY <1>7 DEF Caller, Post, SyncReturn, ExitReturn, Wake, vars
  <2> QED
    BY <2>1 DEF Mailbox!mvars
<1> QED
  BY <1>1, <1>2, <1>3, <1>4, <1>5, <1>6, <1>7 DEF Next, Worker

\* The queue, the two semaphores and the worker behave as a mailbox: what was sent
\* is taken once, in order but for priority, and the worker never comes for
\* nothing (the safety part of MailboxSpec).
THEOREM BehavesAsMailbox == Spec => Mailbox!Init /\ [][Mailbox!Next]_(Mailbox!mvars)
  BY InvInit, InvNext, MailboxInit, MailboxNext, PTL DEF Spec

-----------------------------------------------------------------------------
(* The synchronous call.  QCameraPostProcessor sends every command its     *)
(* routine acknowledges synchronously and no other; under that discipline  *)
(* an answer is always the answer to the call that is waiting.             *)

Paired ==
  /\ \A c \in OwnerCalls : c.sync <=> c.cmd \in AckCmds
  /\ "DO_NEXT_JOB" \notin AckCmds

\* The owner is inside a synchronous sendCmd.
Owed == pc[Owner] \in {"post", "wait"} /\ call[Owner].sync

SyncAt(i) == cmd_queue.nodes[i].call.sync
Running   == wpc = "run" /\ held.call.sync

Disciplined(node) ==
  /\ node.call.sync <=> node.call.cmd \in AckCmds
  /\ node.call.sync => node.from = Owner

\* Every node is the owner's synchronous call or expects no answer.
Discipline ==
  /\ \A i \in 1 .. Len(cmd_queue.nodes) : Disciplined(cmd_queue.nodes[i])
  /\ Disciplined(held)
  /\ \A p \in Producers : ~call[p].sync /\ pc[p] # "wait"
  /\ pc[Owner] = "wait" => call[Owner].sync
  /\ call[Owner].sync => call[Owner].cmd \in AckCmds

\* One synchronous call at a time: it is queued, or running, or answered.
OneCall ==
  /\ sync_sem <= 1
  /\ ~Owed => sync_sem = 0 /\ ~Running
  /\ \A i \in 1 .. Len(cmd_queue.nodes) :
       SyncAt(i) => /\ Owed /\ sync_sem = 0 /\ ~Running
                    /\ \A j \in 1 .. Len(cmd_queue.nodes) : SyncAt(j) => i = j
  /\ Running => sync_sem = 0

AnswerInv == Inv /\ Discipline /\ OneCall

\* What a put does to the queue, node by node.
LEMMA PutNodes ==
  ASSUME Inv, NEW t \in Threads, NEW c \in CallType, Put(t, c)
  PROVE  LET n == [call |-> c, from |-> t] IN
         /\ Len(cmd_queue'.nodes) = Len(cmd_queue.nodes) + 1
         /\ c.prio => /\ cmd_queue'.nodes[1] = n
                      /\ \A i \in 1 .. Len(cmd_queue.nodes) :
                           cmd_queue'.nodes[i + 1] = cmd_queue.nodes[i]
         /\ ~c.prio => /\ cmd_queue'.nodes[Len(cmd_queue.nodes) + 1] = n
                       /\ \A i \in 1 .. Len(cmd_queue.nodes) :
                            cmd_queue'.nodes[i] = cmd_queue.nodes[i]
<1> DEFINE n == [call |-> c, from |-> t]
<1>1. n \in Node
  BY DEF Node
<1>2. CASE c.prio
  <2>1. cmd_queue'.nodes = <<n>> \o cmd_queue.nodes
    BY <1>2 DEF Put, EnqueueWithPriority, Inv, TypeOK, QueueOf
  <2> QED BY <1>1, <1>2, <2>1 DEF Inv, TypeOK, QueueOf
<1>3. CASE ~c.prio
  <2>1. cmd_queue'.nodes = Append(cmd_queue.nodes, n)
    BY <1>3 DEF Put, Enqueue, Inv, TypeOK, QueueOf
  <2> QED BY <1>1, <1>3, <2>1 DEF Inv, TypeOK, QueueOf
<1> QED BY <1>2, <1>3

\* A call that keeps the discipline: what the owner or a producer may put.
LegalPut(t, c) ==
  /\ c.sync <=> c.cmd \in AckCmds
  /\ c.sync => t = Owner
  /\ t # Owner => c = NextJob

LEMMA PutDiscipline ==
  ASSUME AnswerInv, NEW t \in Threads, NEW c \in CallType, Put(t, c), LegalPut(t, c)
  PROVE  Discipline'
<1> DEFINE L == Len(cmd_queue.nodes)
<1>0. L \in Nat
  BY DEF AnswerInv, Inv, TypeOK, QueueOf
<1>1. \A i \in 1 .. Len(cmd_queue'.nodes) : Disciplined(cmd_queue'.nodes[i])
  <2> SUFFICES ASSUME NEW i \in 1 .. (L + 1) PROVE Disciplined(cmd_queue'.nodes[i])
    BY PutNodes DEF AnswerInv
  <2>1. Disciplined([call |-> c, from |-> t])
    BY DEF LegalPut, Disciplined
  <2>2. CASE c.prio
    <3>1. CASE i = 1
      BY <2>1, <2>2, <3>1, PutNodes DEF AnswerInv
    <3>2. CASE i # 1
      <4>1. i - 1 \in 1 .. L /\ (i - 1) + 1 = i
        BY <1>0, <3>2
      <4>2. cmd_queue'.nodes[i] = cmd_queue.nodes[i - 1]
        BY <2>2, <4>1, PutNodes DEF AnswerInv
      <4> QED BY <4>1, <4>2 DEF AnswerInv, Discipline
    <3> QED BY <3>1, <3>2
  <2>3. CASE ~c.prio
    <3>1. CASE i = L + 1
      BY <2>1, <2>3, <3>1, PutNodes DEF AnswerInv
    <3>2. CASE i # L + 1
      <4>1. i \in 1 .. L
        BY <1>0, <3>2
      <4>2. cmd_queue'.nodes[i] = cmd_queue.nodes[i]
        BY <2>3, <4>1, PutNodes DEF AnswerInv
      <4> QED BY <4>1, <4>2 DEF AnswerInv, Discipline
    <3> QED BY <3>1, <3>2
  <2> QED BY <2>2, <2>3
<1>2. Disciplined(held)'
  BY DEF Put, AnswerInv, Discipline, Disciplined
<1>3. \A p \in Producers : ~call'[p].sync /\ pc'[p] # "wait"
  BY CallsAssumption DEF Put, AnswerInv, Discipline, LegalPut, Inv, TypeOK, NextJob, Threads
<1>4. /\ pc'[Owner] = "wait" => call'[Owner].sync
      /\ call'[Owner].sync => call'[Owner].cmd \in AckCmds
  BY DEF Put, AnswerInv, Discipline, LegalPut, Inv, TypeOK, Threads
<1> QED BY <1>1, <1>2, <1>3, <1>4 DEF Discipline, Disciplined

LEMMA PutOneCall ==
  ASSUME AnswerInv, NEW t \in Threads, NEW c \in CallType, Put(t, c), LegalPut(t, c)
  PROVE  OneCall'
<1> DEFINE L == Len(cmd_queue.nodes)
<1>0. L \in Nat /\ sync_sem' = sync_sem /\ Running' = Running
  BY DEF AnswerInv, Inv, TypeOK, QueueOf, Put, Running
<1>1. CASE c.sync
  \* the owner was idle: nothing is outstanding, the new node is the only one
  <2>1. ~Owed /\ Owed'
    BY <1>1 DEF AnswerInv, Inv, TypeOK, Put, LegalPut, Owed
  <2>2. sync_sem = 0 /\ ~Running /\ \A i \in 1 .. L : ~SyncAt(i)
    BY <2>1 DEF AnswerInv, OneCall
  <2>3. \A i \in 1 .. (L + 1) : SyncAt(i)' => i = IF c.prio THEN 1 ELSE L + 1
    <3> TAKE i \in 1 .. (L + 1)
    <3>1. CASE c.prio /\ i # 1
      <4>1. i - 1 \in 1 .. L /\ (i - 1) + 1 = i
        BY <1>0, <3>1
      <4>2. cmd_queue'.nodes[i] = cmd_queue.nodes[i - 1]
        BY <3>1, <4>1, PutNodes DEF AnswerInv
      <4> QED BY <2>2, <3>1, <4>1, <4>2 DEF SyncAt
    <3>2. CASE ~c.prio /\ i # L + 1
      <4>1. i \in 1 .. L
        BY <1>0, <3>2
      <4> QED BY <2>2, <3>2, <4>1, PutNodes DEF AnswerInv, SyncAt
    <3> QED BY <3>1, <3>2
  <2>4. Len(cmd_queue'.nodes) = L + 1
    BY PutNodes DEF AnswerInv
  <2> QED BY <1>0, <2>1, <2>2, <2>3, <2>4 DEF OneCall
<1>2. CASE ~c.sync
  \* the synchronous nodes are those there were, perhaps one place further back
  <2>1. Owed' = Owed
    BY <1>2 DEF AnswerInv, Inv, TypeOK, Put, Owed
  <2>4. Len(cmd_queue'.nodes) = L + 1
    BY PutNodes DEF AnswerInv
  <2>5. CASE c.prio
    <3>1. \A i \in 1 .. (L + 1) : SyncAt(i)' => i - 1 \in 1 .. L /\ SyncAt(i - 1)
      <4> TAKE i \in 1 .. (L + 1)
      <4>1. CASE i = 1
        <5>1. cmd_queue'.nodes[i] = [call |-> c, from |-> t]
          BY <2>5, <4>1, PutNodes DEF AnswerInv
        <5> QED BY <1>2, <5>1 DEF SyncAt
      <4>2. CASE i # 1
        <5>1. i - 1 \in 1 .. L /\ (i - 1) + 1 = i
          BY <1>0, <4>2
        <5> QED BY <2>5, <5>1, PutNodes DEF AnswerInv, SyncAt
      <4> QED BY <4>1, <4>2
    <3> QED BY <1>0, <2>1, <2>4, <3>1 DEF AnswerInv, OneCall
  <2>6. CASE ~c.prio
    <3>1. \A i \in 1 .. (L + 1) : SyncAt(i)' => i \in 1 .. L /\ SyncAt(i)
      <4> TAKE i \in 1 .. (L + 1)
      <4>1. CASE i = L + 1
        <5>1. cmd_queue'.nodes[i] = [call |-> c, from |-> t]
          BY <2>6, <4>1, PutNodes DEF AnswerInv
        <5> QED BY <1>2, <5>1 DEF SyncAt
      <4>2. CASE i # L + 1
        <5>1. i \in 1 .. L
          BY <1>0, <4>2
        <5> QED BY <2>6, <5>1, PutNodes DEF AnswerInv, SyncAt
      <4> QED BY <4>1, <4>2
    <3> QED BY <1>0, <2>1, <2>4, <3>1 DEF AnswerInv, OneCall
  <2> QED BY <2>5, <2>6
<1> QED BY <1>1, <1>2

\* The worker's steps: a taken node moves from the head of the queue to held,
\* a carried-out synchronous command becomes an answer.
LEMMA GetAnswer ==
  ASSUME AnswerInv, GetCmd
  PROVE  Discipline' /\ OneCall'
<1>1. cmd_queue.nodes # << >> /\ cmd_queue.active /\ cmd_queue.nodes \in Seq(Node)
  BY PostingFinite DEF GetCmd, AnswerInv, Inv, Tokens, TypeOK, QueueOf
<1> DEFINE L == Len(cmd_queue.nodes)
<1>2. L \in Nat \ {0} /\ Len(cmd_queue'.nodes) = L - 1
      /\ held' = cmd_queue.nodes[1] /\ wpc' = "run"
      /\ \A i \in 1 .. (L - 1) : cmd_queue'.nodes[i] = cmd_queue.nodes[i + 1]
  BY <1>1 DEF GetCmd, CanDequeue, First, DequeueHead, AnswerInv, Inv, TypeOK, QueueOf
<1>3. UNCHANGED <<pc, call, sync_sem>> /\ ~Running
  BY DEF GetCmd, Running
<1>4. \A i \in 1 .. (L - 1) : i + 1 \in 1 .. L /\ i + 1 # 1
  BY <1>2
<1>5. Discipline'
  <2>1. \A i \in 1 .. L : Disciplined(cmd_queue.nodes[i])
    BY DEF AnswerInv, Discipline
  <2>2. \A i \in 1 .. Len(cmd_queue'.nodes) : Disciplined(cmd_queue'.nodes[i])
    BY ONLY <1>2, <1>4, <2>1
  <2>3. Disciplined(held')
    BY <1>2, <2>1
  <2> QED BY <1>3, <2>2, <2>3 DEF AnswerInv, Discipline, Disciplined
<1>6. \A i \in 1 .. (L - 1) : SyncAt(i)' = SyncAt(i + 1)
  BY <1>2, <1>4 DEF SyncAt
<1>7. (Running' <=> SyncAt(1)) /\ (Owed' <=> Owed)
  BY <1>2, <1>3 DEF Running, SyncAt, Owed
<1>8. 1 \in 1 .. L
  BY <1>2
<1>9. OneCall'
  <2> USE DEF AnswerInv, OneCall
  <2>1. sync_sem' <= 1 /\ (~Owed' => sync_sem' = 0 /\ ~Running')
    BY <1>3, <1>7, <1>8
  <2>2. Running' => sync_sem' = 0
    BY <1>3, <1>7, <1>8
  <2>3. ASSUME NEW i \in 1 .. (L - 1), SyncAt(i)'
        PROVE  /\ Owed' /\ sync_sem' = 0 /\ ~Running'
               /\ \A j \in 1 .. (L - 1) : SyncAt(j)' => i = j
    <3>1. SyncAt(i + 1) /\ i + 1 \in 1 .. L /\ i + 1 # 1
      BY <1>4, <1>6, <2>3
    <3>2. Owed /\ sync_sem = 0 /\ \A j \in 1 .. L : SyncAt(j) => i + 1 = j
      BY <3>1
    <3>3. ~SyncAt(1)
      BY <1>8, <3>1, <3>2
    <3>4. \A j \in 1 .. (L - 1) : SyncAt(j)' => i = j
      <4> TAKE j \in 1 .. (L - 1)
      <4> HAVE SyncAt(j)'
      <4>1. i + 1 = j + 1
        BY <1>4, <1>6, <3>2
      <4> QED BY <4>1, <1>2
    <3> QED BY <1>3, <1>7, <3>2, <3>3, <3>4
  <2> QED BY <1>2, <2>1, <2>2, <2>3
<1> QED BY <1>5, <1>9

LEMMA RunAnswer ==
  ASSUME AnswerInv, RunCmd
  PROVE  Discipline' /\ OneCall'
<1>1. ~Running' /\ Owed' = Owed /\ \A i : SyncAt(i)' = SyncAt(i)
  BY DEF RunCmd, Running, Owed, SyncAt
<1>2. CASE held.call.sync
  <2>1. Running
    BY <1>2 DEF Running, RunCmd
  <2>2. sync_sem = 0 /\ Owed /\ \A i \in 1 .. Len(cmd_queue.nodes) : ~SyncAt(i)
    BY <2>1 DEF AnswerInv, OneCall
  <2>3. sync_sem' = 1
    BY <1>2, <2>2 DEF RunCmd, AnswerInv, Discipline, Disciplined
  <2> QED BY <1>1, <2>2, <2>3
          DEF RunCmd, AnswerInv, Discipline, Disciplined, OneCall
<1>3. CASE ~held.call.sync
  <2>1. sync_sem' = sync_sem
    BY <1>3 DEF RunCmd, AnswerInv, Discipline, Disciplined
  <2>2. ~Running
    BY <1>3 DEF Running
  <2> QED BY <1>1, <2>1, <2>2
          DEF RunCmd, AnswerInv, Discipline, Disciplined, OneCall
<1> QED BY <1>2, <1>3

\* A caller leaves with an answer only when nothing of its own is unfinished.
LEMMA ReturnAnswer ==
  ASSUME AnswerInv, NEW t \in Threads, SyncReturn(t)
  PROVE  Discipline' /\ OneCall' /\ t = Owner /\ ~Unfinished(Owner)
<1>1. t = Owner
  BY DEF SyncReturn, AnswerInv, Discipline, Threads
<1>2. sync_sem = 1 /\ sync_sem' = 0
  BY DEF SyncReturn, AnswerInv, Inv, TypeOK, OneCall
<1>3. ~Running /\ \A i \in 1 .. Len(cmd_queue.nodes) : ~SyncAt(i)
  BY <1>2 DEF AnswerInv, OneCall
<1>4. ~Unfinished(Owner)
  BY <1>3 DEF Unfinished, Awaited, Running, SyncAt
<1>5. Discipline'
  BY <1>1 DEF SyncReturn, AnswerInv, Discipline, Disciplined, Inv, TypeOK, Threads
<1>6. OneCall'
  BY <1>2, <1>3 DEF SyncReturn, OneCall, Running, SyncAt
<1> QED BY <1>1, <1>4, <1>5, <1>6

\* The invariant is inductive, and SyncMeansDone holds of every step.
LEMMA AnswerNext ==
  ASSUME Paired, AnswerInv, [Next]_vars
  PROVE  /\ AnswerInv'
         /\ \A t \in Threads : pc[t] = "wait" /\ pc'[t] = "idle" => ~Unfinished(t)
<1> DEFINE Done == \A t \in Threads : pc[t] = "wait" /\ pc'[t] = "idle" => ~Unfinished(t)
<1>0. Inv'
  BY InvNext DEF AnswerInv
<1> SUFFICES Discipline' /\ OneCall' /\ Done
  BY <1>0 DEF AnswerInv
<1>1. ASSUME NEW t \in Threads, NEW c \in CallType, Put(t, c), LegalPut(t, c)
      PROVE  Discipline' /\ OneCall' /\ Done
  <2>1. Done
    BY <1>1 DEF Put, AnswerInv, Inv, TypeOK
  <2> QED BY <1>1, <2>1, PutDiscipline, PutOneCall
<1>2. LegalPut(Owner, ExitCall) /\ \A p \in Producers : LegalPut(p, NextJob)
  BY CallsAssumption DEF Paired, LegalPut, ExitCall, NextJob
<1>3. \A c \in OwnerCalls : LegalPut(Owner, c)
  BY DEF Paired, LegalPut
<1>4. CASE Launch
  BY <1>4 DEF Launch, AnswerInv, Inv, Joined, Discipline, Disciplined, OneCall, Running, Owed, SyncAt
<1>5. CASE \E p \in Producers : ProducerSends(p)
  BY <1>1, <1>2, <1>5, CallsTyped DEF ProducerSends, Threads
<1>6. CASE \E c \in OwnerCalls : OwnerSends(c)
  BY <1>1, <1>3, <1>6, CallsTyped DEF OwnerSends, Threads
<1>7. CASE OwnerExits
  BY <1>1, <1>2, <1>7, CallsTyped DEF OwnerExits, Threads
<1>8. CASE \E t \in Threads : Post(t)
  <2>1. PICK t \in Threads : Post(t)
    BY <1>8
  <2>2. Owed' = Owed
    <3>1. call[Owner].cmd = "EXIT" => ~call[Owner].sync
      BY CallsAssumption DEF AnswerInv, Discipline
    <3> QED BY <2>1, <3>1 DEF Post, Owed, AnswerInv, Inv, TypeOK, Threads
  <2>3. Discipline'
    BY <2>1 DEF Post, AnswerInv, Discipline, Disciplined, Inv, TypeOK, Threads
  <2>4. OneCall'
    BY <2>1, <2>2 DEF Post, AnswerInv, OneCall, Running, SyncAt
  <2>5. Done
    BY <2>1 DEF Post, AnswerInv, Inv, TypeOK
  <2> QED BY <2>3, <2>4, <2>5
<1>9. CASE \E t \in Threads : SyncReturn(t)
  <2>1. PICK t \in Threads : SyncReturn(t)
    BY <1>9
  <2>2. Done
    BY <2>1, ReturnAnswer DEF SyncReturn, AnswerInv, Inv, TypeOK
  <2> QED BY <2>1, <2>2, ReturnAnswer
<1>10. CASE ExitReturn
  BY <1>10 DEF ExitReturn, AnswerInv, Inv, TypeOK, Discipline, Disciplined, OneCall,
               Running, Owed, SyncAt, Threads
<1>11. CASE Wake
  BY <1>11 DEF Wake, AnswerInv, Discipline, Disciplined, OneCall, Running, Owed, SyncAt
<1>12. CASE GetCmd
  BY <1>12, GetAnswer DEF GetCmd
<1>13. CASE RunCmd
  BY <1>13, RunAnswer DEF RunCmd
<1>14. CASE UNCHANGED vars
  BY <1>14 DEF vars, AnswerInv, Discipline, Disciplined, OneCall, Running, Owed, SyncAt
<1> QED BY <1>4, <1>5, <1>6, <1>7, <1>8, <1>9, <1>10, <1>11, <1>12, <1>13, <1>14
        DEF Next, Worker, Caller

LEMMA AnswerInit == Paired /\ Init => AnswerInv
<1> SUFFICES ASSUME Paired, Init PROVE AnswerInv
  OBVIOUS
<1>1. /\ \A t \in Threads : call[t] = NextJob /\ pc[t] = "idle"
      /\ Owner \in Threads /\ Producers \subseteq Threads
      /\ ~NextJob.sync /\ NextJob.cmd \notin AckCmds
  BY DEF Init, Threads, NextJob, Paired
<1>2. held.call = NextJob /\ cmd_queue.nodes = << >>
  BY DEF Init, NewQueue
<1>3. Discipline
  BY <1>1, <1>2 DEF Discipline, Disciplined
<1>4. OneCall
  BY <1>1, <1>2 DEF Init, OneCall, Running
<1> QED BY <1>3, <1>4, InvInit DEF AnswerInv

\* A synchronous sendCmd comes back only when its command was carried out, for
\* every owner that pairs synchronous calls with acknowledged commands, any
\* number of other threads announcing work, and any interleaving.
THEOREM SyncCallsAreSynchronous == Paired /\ Spec => SyncMeansDone
<1> DEFINE Done == \A t \in Threads : pc[t] = "wait" /\ pc'[t] = "idle" => ~Unfinished(t)
<1>1. Paired /\ Init => AnswerInv
  BY AnswerInit
<1>2. Paired /\ AnswerInv /\ [Next]_vars => AnswerInv' /\ [Done]_vars
  BY AnswerNext
<1> HIDE DEF Done
<1>3. Paired /\ Spec => [][Done]_vars
  <2>1. CASE Paired
    BY <1>1, <1>2, <2>1, PTL DEF Spec
  <2>2. CASE ~Paired
    BY <2>2
  <2> QED BY <2>1, <2>2
<1> USE DEF Done
<1> QED BY <1>3 DEF SyncMeansDone
=============================================================================
