----------------------------- MODULE CmdThread ------------------------------
(***************************************************************************)
(* QCameraCmdThread (camera/QCamera2/util/QCameraCmdThread.cpp): a worker  *)
(* thread, the queue of commands it is sent, and two semaphores.  cmd_sem  *)
(* counts the commands announced to the worker; sync_sem answers a caller  *)
(* that asked to wait.  The post-processor, the streams, the notifier, the *)
(* deferred-work queue and the dual-camera muxer each own one.             *)
(*                                                                         *)
(* The owner launches the worker, sends it the calls in OwnerCalls and     *)
(* ends it with exit(); other threads (Producers) only announce work with  *)
(* an asynchronous DO_NEXT_JOB.  sendCmd is three steps (put the node on   *)
(* the queue, post cmd_sem, wait on sync_sem) and the worker three (wait,  *)
(* take the node, carry it out), so that all of their interleavings occur. *)
(***************************************************************************)
EXTENDS CamQueue, FiniteSets

CONSTANTS
  Producers,      \* threads that announce work
  Owner,          \* the thread that owns the worker
  OwnerCalls,     \* what the owner sends: [cmd, sync, prio] records
  AckCmds,        \* the commands whose branch of the worker posts sync_sem
  MaxQueue,       \* bound: nodes on the queue when a caller adds one
  MaxAcks         \* bound: answers nobody has taken when the owner calls

Cmds == {"START_DATA_PROC", "STOP_DATA_PROC", "DO_NEXT_JOB", "EXIT"}

CallType == [cmd : Cmds, sync : BOOLEAN, prio : BOOLEAN]

ASSUME CallsAssumption ==
  /\ Owner \notin Producers
  /\ IsFiniteSet(Producers)
  /\ OwnerCalls \subseteq [cmd : Cmds \ {"EXIT"}, sync : BOOLEAN, prio : BOOLEAN]
  /\ AckCmds \subseteq Cmds \ {"EXIT"}
  /\ MaxQueue \in Nat /\ MaxAcks \in Nat

Threads == Producers \cup {Owner}

\* sendCmd(CAMERA_CMD_TYPE_DO_NEXT_JOB, FALSE, FALSE), as every producer calls it.
NextJob == [cmd |-> "DO_NEXT_JOB", sync |-> FALSE, prio |-> FALSE]

\* The call exit() makes.
ExitCall == [cmd |-> "EXIT", sync |-> FALSE, prio |-> TRUE]

VARIABLES
  cmd_queue,   \* nodes [call, from]; the code keeps only the command
  cmd_sem,
  sync_sem,
  cmd_pid,     \* is there a thread to join (cmd_pid # 0)
  pc,          \* where each caller is in sendCmd() or exit()
  call,        \* the call each caller is making
  wpc,         \* where the worker is: waiting, holding a token, carrying out
  held         \* the node the worker took last

vars == <<cmd_queue, cmd_sem, sync_sem, cmd_pid, pc, call, wpc, held>>

Node == [call : CallType, from : Threads]

TypeOK ==
  /\ cmd_queue \in QueueOf(Node)
  /\ cmd_sem \in Nat
  /\ sync_sem \in Nat
  /\ cmd_pid \in BOOLEAN
  /\ pc \in [Threads -> {"idle", "post", "wait", "join"}]
  /\ call \in [Threads -> CallType]
  /\ wpc \in {"none", "wait", "get", "run"}
  /\ held \in Node

Init ==
  /\ cmd_queue = NewQueue
  /\ cmd_sem = 0
  /\ sync_sem = 0
  /\ cmd_pid = FALSE
  /\ pc = [t \in Threads |-> "idle"]
  /\ call = [t \in Threads |-> NextJob]
  /\ wpc = "none"
  /\ held = [call |-> NextJob, from |-> Owner]

-----------------------------------------------------------------------------
(* The callers.                                                            *)

\* launch(): pthread_create of the routine.  Its callers do so once between
\* two exits.
Launch ==
  /\ pc[Owner] = "idle" /\ ~cmd_pid
  /\ cmd_pid' = TRUE
  /\ wpc' = "wait"
  /\ UNCHANGED <<cmd_queue, cmd_sem, sync_sem, pc, call, held>>

\* Variant for the checks: priority is ignored.
PutAtTail(t, c) ==
  /\ pc[t] = "idle"
  /\ Len(cmd_queue.nodes) < MaxQueue
  /\ cmd_queue' = Enqueue(cmd_queue, [call |-> c, from |-> t])
  /\ pc' = [pc EXCEPT ![t] = "post"]
  /\ call' = [call EXCEPT ![t] = c]
  /\ UNCHANGED <<cmd_sem, sync_sem, cmd_pid, wpc, held>>

\* sendCmd(), first part: the node goes to the tail or, with priority, to the
\* head.  A refused node would be freed; cmd_queue is never flushed while its
\* owner lives, so none is.
Put(t, c) ==
  /\ pc[t] = "idle"
  /\ Len(cmd_queue.nodes) < MaxQueue
  /\ LET node == [call |-> c, from |-> t] IN
       cmd_queue' = IF c.prio THEN EnqueueWithPriority(cmd_queue, node)
                              ELSE Enqueue(cmd_queue, node)
  /\ pc' = [pc EXCEPT ![t] = "post"]
  /\ call' = [call EXCEPT ![t] = c]
  /\ UNCHANGED <<cmd_sem, sync_sem, cmd_pid, wpc, held>>

ProducerSends(p) == Put(p, NextJob)

\* The owner calls only while its worker exists (m_bInited and the like).
OwnerSends(c) == cmd_pid /\ sync_sem <= MaxAcks /\ Put(Owner, c)

\* exit(): nothing to do when the thread was joined already.
OwnerExits == cmd_pid /\ Put(Owner, ExitCall)

\* Variant: a synchronous caller waits without having posted.
PostOnlyAsync(t) ==
  /\ pc[t] = "post"
  /\ cmd_sem' = IF call[t].sync THEN cmd_sem ELSE cmd_sem + 1
  /\ pc' = [pc EXCEPT ![t] = IF call[t].cmd = "EXIT" THEN "join"
                             ELSE IF call[t].sync THEN "wait" ELSE "idle"]
  /\ UNCHANGED <<cmd_queue, sync_sem, cmd_pid, call, wpc, held>>

\* sendCmd(), second part: cam_sem_post(&cmd_sem).
Post(t) ==
  /\ pc[t] = "post"
  /\ cmd_sem' = cmd_sem + 1
  /\ pc' = [pc EXCEPT ![t] = IF call[t].cmd = "EXIT" THEN "join"
                             ELSE IF call[t].sync THEN "wait" ELSE "idle"]
  /\ UNCHANGED <<cmd_queue, sync_sem, cmd_pid, call, wpc, held>>

\* Variant: the answer is taken without waiting for it.
SyncReturnAtOnce(t) ==
  /\ pc[t] = "wait"
  /\ sync_sem' = sync_sem - 1
  /\ pc' = [pc EXCEPT ![t] = "idle"]
  /\ UNCHANGED <<cmd_queue, cmd_sem, cmd_pid, call, wpc, held>>

\* sendCmd(), third part: cam_sem_wait(&sync_sem).
SyncReturn(t) ==
  /\ pc[t] = "wait" /\ sync_sem > 0
  /\ sync_sem' = sync_sem - 1
  /\ pc' = [pc EXCEPT ![t] = "idle"]
  /\ UNCHANGED <<cmd_queue, cmd_sem, cmd_pid, call, wpc, held>>

\* exit(): pthread_join and cmd_pid = 0.
ExitReturn ==
  /\ pc[Owner] = "join" /\ wpc = "none"
  /\ cmd_pid' = FALSE
  /\ pc' = [pc EXCEPT ![Owner] = "idle"]
  /\ UNCHANGED <<cmd_queue, cmd_sem, sync_sem, call, wpc, held>>

-----------------------------------------------------------------------------
(* The worker: the loop every start routine has.                           *)

\* cam_sem_wait(&cmd_sem).
Wake ==
  /\ wpc = "wait" /\ cmd_sem > 0
  /\ cmd_sem' = cmd_sem - 1
  /\ wpc' = "get"
  /\ UNCHANGED <<cmd_queue, sync_sem, cmd_pid, pc, call, held>>

\* getCmd(): the first node; with none, CAMERA_CMD_TYPE_NONE, which no branch
\* of the switch handles.
GetCmd ==
  /\ wpc = "get"
  /\ IF CanDequeue(cmd_queue)
     THEN /\ held' = First(cmd_queue)
          /\ cmd_queue' = DequeueHead(cmd_queue)
          /\ wpc' = "run"
     ELSE /\ wpc' = "wait"
          /\ UNCHANGED <<held, cmd_queue>>
  /\ UNCHANGED <<cmd_sem, sync_sem, cmd_pid, pc, call>>

\* Variants: every command is acknowledged; STOP is not.
RunCmdAcksAll ==
  /\ wpc = "run"
  /\ sync_sem' = sync_sem + 1
  /\ wpc' = IF held.call.cmd = "EXIT" THEN "none" ELSE "wait"
  /\ UNCHANGED <<cmd_queue, cmd_sem, cmd_pid, pc, call, held>>

RunCmdForgetsStop ==
  /\ wpc = "run"
  /\ sync_sem' = IF held.call.cmd = "START_DATA_PROC" THEN sync_sem + 1 ELSE sync_sem
  /\ wpc' = IF held.call.cmd = "EXIT" THEN "none" ELSE "wait"
  /\ UNCHANGED <<cmd_queue, cmd_sem, cmd_pid, pc, call, held>>

\* The switch: an acknowledged command ends with cam_sem_post(&sync_sem), and
\* EXIT ends the loop with whatever is still queued left there.
RunCmd ==
  /\ wpc = "run"
  /\ sync_sem' = IF held.call.cmd \in AckCmds THEN sync_sem + 1 ELSE sync_sem
  /\ wpc' = IF held.call.cmd = "EXIT" THEN "none" ELSE "wait"
  /\ UNCHANGED <<cmd_queue, cmd_sem, cmd_pid, pc, call, held>>

Worker == Wake \/ GetCmd \/ RunCmd

Caller(t) == Post(t) \/ SyncReturn(t)

Next ==
  \/ Launch
  \/ \E p \in Producers : ProducerSends(p)
  \/ \E c \in OwnerCalls : OwnerSends(c)
  \/ OwnerExits
  \/ \E t \in Threads : Caller(t)
  \/ ExitReturn
  \/ Worker

\* The scheduler runs every thread that can run; nobody is obliged to call.
Fairness ==
  /\ WF_vars(Worker)
  /\ \A t \in Threads : WF_vars(Caller(t))
  /\ WF_vars(ExitReturn)

Spec == Init /\ [][Next]_vars /\ Fairness
-----------------------------------------------------------------------------
(* Properties.                                                             *)

Posting == {t \in Threads : pc[t] = "post"}

\* Every node on the queue is announced: by a token, by a caller about to post
\* one, or by the token the worker just took (sendCmd puts before it posts).
Tokens ==
  Len(cmd_queue.nodes) =
    cmd_sem + Cardinality(Posting) + (IF wpc = "get" THEN 1 ELSE 0)

\* The worker is never woken for nothing: getCmd() always finds a node, however
\* the callers' puts and posts interleave with it.
NeverEmptyHanded == wpc = "get" => ~IsEmpty(cmd_queue)

\* A synchronous command of t that the worker has not finished.
Awaited(node, t) == node.from = t /\ node.call.sync

Unfinished(t) ==
  \/ \E i \in 1 .. Len(cmd_queue.nodes) : Awaited(cmd_queue.nodes[i], t)
  \/ wpc = "run" /\ Awaited(held, t)

\* "this call will wait until signal is set after the command is completed"
\* (QCameraCmdThread.cpp:128-130): a caller leaves sendCmd only when its own
\* command is done, not on an answer meant for an earlier one.
SyncMeansDone ==
  [][\A t \in Threads : pc[t] = "wait" /\ pc'[t] = "idle" => ~Unfinished(t)]_vars

\* A synchronous sendCmd and an exit() always come back, whatever the producers send.
CallsReturn == pc[Owner] # "idle" ~> pc[Owner] = "idle"

\* The promise of the whole: a mailbox without semaphores.
Mailbox ==
  INSTANCE CmdMailbox WITH
    Calls <- CallType,
    box   <- [i \in 1 .. Len(cmd_queue.nodes) |-> cmd_queue.nodes[i].call],
    state <- IF wpc = "get" THEN "wait" ELSE wpc,
    last  <- held.call
MailboxSpec == Mailbox!Spec
=============================================================================
