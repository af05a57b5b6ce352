-------------------------------- MODULE Streams --------------------------------
(***************************************************************************)
(* The streams of a channel (mm_camera_stream.c), started and stopped by   *)
(* mm_channel_start() and mm_channel_stop() under ch_lock, their buffers,  *)
(* and the poll thread they share (mm_camera_thread.c).                    *)
(*                                                                         *)
(* A buffer is in the kernel or has users, which its reference count       *)
(* counts: the channel's super buffer, the node for the stream's thread,   *)
(* and the application its callback gave it to.  buf_lock, cmd_lock and    *)
(* the lock of the pipe are held within one step each.                     *)
(*                                                                         *)
(* Left out: linked streams, batches, synchronous callbacks, the mapping   *)
(* of buffers (it may fail as STREAMON may), cancelled buffers, the        *)
(* threads of the channel, which count as users, a failing DQBUF (the poll *)
(* comes back for the frame) and a failing add of a poll entry.  in_kernel *)
(* is read for the mapping only and is not kept.  The kernel's queue is    *)
(* external.                                                               *)
(***************************************************************************)
EXTENDS Integers, Sequences, FiniteSets, SequencesExt

CONSTANTS
  Streams,
  Buffers,
  Bundled,    \* the streams of the super buffers
  Called,     \* the streams with an asynchronous callback
  Setups,     \* channels, each a record of
              \*   order    its streams, as they are started, the metadata first
              \*   buffers  the buffers of each stream
              \*   held     those the upper layer holds when the stream starts
  MaxStarts   \* bound: starts of the channel

Pairs == Streams \X Buffers
Users == {"channel", "thread", "app"}

ASSUME StreamsAssumption ==
  /\ MaxStarts \in Nat
  /\ IsFiniteSet(Buffers)
  /\ Bundled \cup Called = Streams
  /\ \A c \in Setups :
       /\ c.order \in Seq(Streams) \ {<< >>} /\ Len(c.order) = Cardinality(ToSet(c.order))
       /\ \A s \in ToSet(c.order) :
            /\ c.buffers[s] \subseteq Buffers
            /\ c.held[s] \subseteq c.buffers[s] /\ c.held[s] # c.buffers[s]

VARIABLES
  setup,        \* the channel, which stays
  state,        \* of each stream
  count,        \* queued_buffer_count
  refcnt,       \* buf_refcnt of each buffer
  users,        \* who has each buffer
  done,         \* where each user's mm_stream_buf_done() is
  thread,       \* the streams whose cmd_thread is active
  lost,         \* buffers that a failure left with nobody, until the stream is started
  kernel,       \* the kernel's side of each stream
  poll_entries, \* the streams whose fd is an entry
  poll_fds,     \* those the poll thread polls
  pipe,         \* commands to the poll thread
  synced,       \* the caller's command was processed
  poll,         \* where the poll thread is
  caller,       \* where the thread that has ch_lock is
  starts        \* starts of the channel so far

bufVars  == <<count, refcnt, users, done, thread, lost>>
pollVars == <<poll_entries, poll_fds, pipe, synced, poll>>
chVars   == <<setup, state, caller, starts>>
vars == <<bufVars, kernel, pollVars, chVars>>

Quiet == [requested |-> FALSE, streaming |-> FALSE, queued |-> {}, filled |-> {}]
Polling == [at |-> "poll", ready |-> {}, buf |-> << >>]
NoCall == [op |-> "none", at |-> "none", i |-> 0]

TypeOK ==
  /\ setup \in Setups
  /\ state \in [Streams -> {"CFG", "BUFFED", "REG", "ACTIVE"}]
  /\ \A s \in Streams : count[s] \in 0 .. Cardinality(Buffers)
  /\ refcnt \in [Pairs -> 0 .. 255]
  /\ users \in [Pairs -> SUBSET Users]
  /\ done \in [Pairs \X Users -> {"no", "checked", "queue", "ioctl"}]
  /\ thread \subseteq Called /\ lost \subseteq Pairs
  /\ \A s \in Streams :
       /\ kernel[s].requested \in BOOLEAN /\ kernel[s].streaming \in BOOLEAN
       /\ kernel[s].queued \subseteq Buffers /\ kernel[s].filled \subseteq Buffers
  /\ poll_entries \subseteq Streams /\ poll_fds \subseteq Streams
  /\ pipe \in Seq({"async", "sync"})
  /\ synced \in BOOLEAN
  /\ poll.at \in {"poll", "loop", "read", "counted", "give", "call"}
  /\ poll.ready \subseteq Streams /\ poll.buf \in Pairs \cup {<< >>}
  /\ caller.op \in {"none", "start", "undo", "stop"} /\ caller.i \in 0 .. Len(setup.order)
  /\ starts \in 0 .. MaxStarts

Init ==
  /\ setup \in Setups
  /\ state = [s \in Streams |-> "CFG"]
  /\ count = [s \in Streams |-> 0]
  /\ refcnt = [p \in Pairs |-> 0]
  /\ users = [p \in Pairs |-> {}]
  /\ done = [d \in Pairs \X Users |-> "no"]
  /\ thread = {} /\ lost = {}
  /\ kernel = [s \in Streams |-> Quiet]
  /\ poll_entries = {} /\ poll_fds = {} /\ pipe = << >> /\ synced = TRUE
  /\ poll = Polling
  /\ caller = NoCall /\ starts = 0

-----------------------------------------------------------------------------
(* The poll entries, changed with the count under buf_lock.                *)

Of(s) == {p \in Pairs : p[1] = s}
Lose(p) == lost' = lost \cup {p}
Send(c) == pipe' = Append(pipe, c)

\* mm_camera_poll_thread_add_poll_fd() for the first buffer queued.
CountUp(s) ==
  /\ count' = [count EXCEPT ![s] = @ + 1]
  /\ IF count[s] = 0
     THEN poll_entries' = poll_entries \cup {s} /\ Send("async")
     ELSE UNCHANGED <<poll_entries, pipe>>

\* Variant: polling stops one buffer too early.
CountDownEarly(s) ==
  /\ count' = [count EXCEPT ![s] = @ - 1]
  /\ IF count[s] = 2 /\ s \in poll_entries
     THEN poll_entries' = poll_entries \ {s} /\ Send("async")
     ELSE UNCHANGED <<poll_entries, pipe>>

\* Variant: twice.
CountDownTwice(s) ==
  /\ count' = [count EXCEPT ![s] = @ - 2]
  /\ UNCHANGED <<poll_entries, pipe>>

\* mm_camera_poll_thread_del_poll_fd() for the last; an entry that has gone sends
\* nothing.
CountDown(s) ==
  /\ count' = [count EXCEPT ![s] = @ - 1]
  /\ IF count[s] = 1 /\ s \in poll_entries
     THEN poll_entries' = poll_entries \ {s} /\ Send("async")
     ELSE UNCHANGED <<poll_entries, pipe>>

-----------------------------------------------------------------------------
(* The kernel, and the poll thread: mm_camera_poll_fn().                   *)

Handling(s) == poll.buf # << >> /\ poll.buf[1] = s

\* The stream in the caller's hands; the metadata is stopped last.
Current ==
  IF caller.op = "stop" THEN (Tail(setup.order) \o <<Head(setup.order)>>)[caller.i]
  ELSE setup.order[caller.i]

KernelFills(s) ==
  /\ kernel[s].streaming
  /\ \E b \in kernel[s].queued :
       kernel' = [kernel EXCEPT ![s].queued = @ \ {b}, ![s].filled = @ \cup {b}]
  /\ UNCHANGED <<bufVars, pollVars, chVars>>

Ready == {s \in poll_fds : kernel[s].filled # {}}

\* Variant: all commands at once, answered as the first of them.
PollCommandAll ==
  /\ poll.at = "poll" /\ pipe # << >>
  /\ poll_fds' = poll_entries
  /\ synced' = (synced \/ Head(pipe) = "sync")
  /\ pipe' = << >>
  /\ UNCHANGED <<bufVars, kernel, poll_entries, poll, chVars>>

\* mm_camera_poll_proc_pipe(), before any data.
PollCommand ==
  /\ poll.at = "poll" /\ pipe # << >>
  /\ poll_fds' = poll_entries
  /\ synced' = (synced \/ Head(pipe) = "sync")
  /\ pipe' = Tail(pipe)
  /\ UNCHANGED <<bufVars, kernel, poll_entries, poll, chVars>>

PollReturns ==
  /\ poll.at = "poll" /\ pipe = << >> /\ Ready # {}
  /\ poll' = [poll EXCEPT !.at = "loop", !.ready = Ready]
  /\ UNCHANGED <<bufVars, kernel, poll_entries, poll_fds, pipe, synced, chVars>>

PollLoopEnds ==
  /\ poll.at = "loop" /\ poll.ready = {}
  /\ poll' = Polling
  /\ UNCHANGED <<bufVars, kernel, poll_entries, poll_fds, pipe, synced, chVars>>

\* mm_stream_data_notify() and mm_stream_read_msm_frame(): the entry, the state and
\* the kernel may each say that there is nothing to do.  Nothing is assumed of the
\* order of the streams.
DataNotify ==
  /\ poll.at = "loop"
  /\ \E s \in poll.ready :
       IF s \in poll_entries /\ state[s] = "ACTIVE" /\ kernel[s].filled # {}
       THEN \E b \in kernel[s].filled :
              /\ kernel' = [kernel EXCEPT ![s].filled = @ \ {b}]
              /\ poll' = [at |-> "read", ready |-> poll.ready \ {s}, buf |-> <<s, b>>]
       ELSE poll' = [poll EXCEPT !.ready = @ \ {s}] /\ UNCHANGED kernel
  /\ UNCHANGED <<bufVars, poll_entries, poll_fds, pipe, synced, chVars>>

\* Without the cache's clean_invalidate_buf the frame is dropped, and with it its buffer.
ReadMsmFrame ==
  /\ poll.at = "read"
  /\ CountDown(poll.buf[1])
  /\ \/ poll' = [poll EXCEPT !.at = "counted"] /\ UNCHANGED lost
     \/ Lose(poll.buf) /\ poll' = [poll EXCEPT !.at = "loop", !.buf = << >>]
  /\ UNCHANGED <<refcnt, users, done, thread, kernel, poll_fds, synced, chVars>>

Refs(s) == (IF s \in Bundled THEN 1 ELSE 0) + (IF s \in Called THEN 1 ELSE 0)

\* Variant: one reference for all.
CountReferencesOnce ==
  /\ poll.at = "counted"
  /\ refcnt' = [refcnt EXCEPT ![poll.buf] = (@ + 1) % 256]
  /\ poll' = [poll EXCEPT !.at = "give"]
  /\ UNCHANGED <<count, users, done, thread, lost, kernel, poll_entries, poll_fds, pipe,
                 synced, chVars>>

CountReferences ==
  /\ poll.at = "counted"
  /\ refcnt' = [refcnt EXCEPT ![poll.buf] = (@ + Refs(poll.buf[1])) % 256]
  /\ poll' = [poll EXCEPT !.at = "give"]
  /\ UNCHANGED <<count, users, done, thread, lost, kernel, poll_entries, poll_fds, pipe,
                 synced, chVars>>

\* mm_stream_handle_rcvd_buf(): first the channel, then the stream's thread, if it
\* is active.
NotifyChannel ==
  /\ poll.at = "give"
  /\ users' = [users EXCEPT ![poll.buf] =
                 IF poll.buf[1] \in Bundled THEN @ \cup {"channel"} ELSE @]
  /\ poll' = [poll EXCEPT !.at = "call"]
  /\ UNCHANGED <<count, refcnt, done, thread, lost, kernel, poll_entries, poll_fds, pipe,
                 synced, chVars>>

NotifyThread ==
  /\ poll.at = "call"
  /\ caller.at = "join" => Current # poll.buf[1]
  /\ users' = [users EXCEPT ![poll.buf] =
                 IF poll.buf[1] \in thread THEN @ \cup {"thread"} ELSE @]
  /\ poll' = [poll EXCEPT !.at = "loop", !.buf = << >>]
  /\ UNCHANGED <<count, refcnt, done, thread, lost, kernel, poll_entries, poll_fds, pipe,
                 synced, chVars>>

PollThread ==
  \/ PollCommand \/ PollReturns \/ PollLoopEnds \/ DataNotify \/ ReadMsmFrame
  \/ CountReferences \/ NotifyChannel \/ NotifyThread

-----------------------------------------------------------------------------
(* The users give their buffers back.                                      *)

At(p, u, step) == done' = [done EXCEPT ![<<p, u>>] = step]
Drop(p, u) == users' = [users EXCEPT ![p] = @ \ {u}]

\* mm_stream_dispatch_app_data(): the callback, then mm_stream_buf_done().
Dispatch(p) ==
  /\ "thread" \in users[p] /\ done[<<p, "thread">>] = "no"
  /\ \A q \in Of(p[1]) : done[<<q, "thread">>] = "no"
  /\ refcnt' = [refcnt EXCEPT ![p] = (@ + 1) % 256]
  /\ users' = [users EXCEPT ![p] = @ \cup {"app"}]
  /\ At(p, "thread", "checked")
  /\ UNCHANGED <<count, thread, lost, kernel, pollVars, chVars>>

\* mm_camera_qbuf(), without ch_lock: a stream that is not active does nothing, and
\* a count of zero is a warning.
QBuf(p, u) ==
  /\ u \in users[p] \ {"thread"} /\ done[<<p, u>>] = "no"
  /\ state[p[1]] = "ACTIVE" \/ caller.op \in {"undo", "stop"}
  /\ IF state[p[1]] = "ACTIVE" /\ refcnt[p] > 0
     THEN At(p, u, "checked") /\ UNCHANGED users
     ELSE Drop(p, u) /\ UNCHANGED done
  /\ UNCHANGED <<count, refcnt, thread, lost, kernel, pollVars, chVars>>

BufDone(p, u) ==
  /\ done[<<p, u>>] = "checked"
  /\ refcnt' = [refcnt EXCEPT ![p] = (@ + 255) % 256]
  /\ At(p, u, IF refcnt[p] = 1 THEN "queue" ELSE "no")
  /\ Drop(p, u)
  /\ UNCHANGED <<count, thread, lost, kernel, pollVars, chVars>>

\* mm_stream_qbuf(): the cache, the count and the entry before the ioctl.  When the
\* cache's invalidate_buf fails, or VIDIOC_QBUF on a stream with buffers or without, the
\* buffer has no references any more and is not in the kernel; mm_stream_buf_done()
\* only logs that.
QBufCounts(p, u) ==
  /\ done[<<p, u>>] = "queue"
  /\ \/ CountUp(p[1]) /\ At(p, u, "ioctl") /\ UNCHANGED lost
     \/ Lose(p) /\ At(p, u, "no") /\ UNCHANGED <<count, poll_entries, pipe>>
  /\ UNCHANGED <<refcnt, users, thread, kernel, poll_fds, synced, poll, chVars>>

QBufIoctl(p, u) ==
  /\ done[<<p, u>>] = "ioctl"
  /\ At(p, u, "no")
  /\ \/ /\ kernel[p[1]].requested
        /\ kernel' = [kernel EXCEPT ![p[1]].queued = @ \cup {p[2]}]
        /\ UNCHANGED <<count, lost, poll_entries, pipe>>
     \/ CountDown(p[1]) /\ Lose(p) /\ UNCHANGED kernel
  /\ UNCHANGED <<refcnt, users, thread, poll_fds, synced, poll, chVars>>

Finish(p, u) == BufDone(p, u) \/ QBufCounts(p, u) \/ QBufIoctl(p, u)

-----------------------------------------------------------------------------
(* mm_channel_start() and mm_channel_stop().                               *)

Go(at) == caller' = [caller EXCEPT !.at = at]
NextStream(at) ==
  caller' = IF caller.i < Len(setup.order) THEN [caller EXCEPT !.at = at, !.i = @ + 1]
            ELSE NoCall
GiveUp == caller' = [op |-> "undo", at |-> "off", i |-> 1]

Start ==
  /\ caller = NoCall /\ starts < MaxStarts /\ \A s \in Streams : state[s] = "CFG"
  /\ caller' = [op |-> "start", at |-> "get", i |-> 1]
  /\ starts' = starts + 1
  /\ UNCHANGED <<setup, state, bufVars, kernel, pollVars>>

Stop ==
  /\ caller = NoCall /\ \E s \in Streams : state[s] = "ACTIVE"
  /\ caller' = [op |-> "stop", at |-> "off", i |-> 1]
  /\ UNCHANGED <<setup, state, starts, bufVars, kernel, pollVars>>

GetBuf ==
  /\ caller.at = "get"
  /\ \/ state' = [state EXCEPT ![Current] = "BUFFED"] /\ Go("request")
     \/ UNCHANGED state /\ GiveUp
  /\ UNCHANGED <<setup, starts, bufVars, kernel, pollVars>>

\* mm_stream_reg_buf(): the held buffers have one reference, the others are queued.
RequestBuf ==
  /\ caller.at = "request"
  /\ LET s == Current IN
       \/ /\ kernel' = [kernel EXCEPT ![s] = [Quiet EXCEPT !.requested = TRUE]]
          /\ count' = [count EXCEPT ![s] = 0]
          /\ refcnt' = [p \in Pairs |->
                          IF p[1] = s /\ p[2] \in setup.held[s] THEN 1 ELSE refcnt[p]]
          /\ users' = [p \in Pairs |-> IF p[1] # s THEN users[p]
                                       ELSE IF p[2] \in setup.held[s] THEN {"app"} ELSE {}]
          /\ lost' = lost \ Of(s)
          /\ Go("queue")
       \/ GiveUp /\ UNCHANGED <<kernel, count, refcnt, users, lost>>
  /\ UNCHANGED <<setup, state, starts, done, thread, pollVars>>

ToQueue == (setup.buffers[Current] \ setup.held[Current]) \ kernel[Current].queued

QueueCounts ==
  /\ caller.at = "queue" /\ ToQueue # {}
  /\ \/ CountUp(Current) /\ Go("ioctl")
     \/ GiveUp /\ UNCHANGED <<count, poll_entries, pipe>>
  /\ UNCHANGED <<setup, state, starts, refcnt, users, done, thread, lost, kernel, poll_fds,
                 synced, poll>>

QueueIoctl ==
  /\ caller.at = "ioctl"
  /\ LET s == Current
         b == CHOOSE b \in ToQueue : TRUE IN
       \/ /\ kernel' = [kernel EXCEPT ![s].queued = @ \cup {b}]
          /\ refcnt' = [refcnt EXCEPT ![<<s, b>>] = 0]
          /\ Go("queue")
          /\ UNCHANGED <<count, poll_entries, pipe>>
       \/ /\ CountDown(s) /\ GiveUp
          /\ UNCHANGED <<kernel, refcnt>>
  /\ UNCHANGED <<setup, state, starts, users, done, thread, lost, poll_fds, synced, poll>>

\* MM_STREAM_EVT_START, up to the stream's thread and the state; nobody tells REG,
\* the state before, from BUFFED.
Launch ==
  /\ caller.at = "queue" /\ ToQueue = {}
  /\ state' = [state EXCEPT ![Current] = "ACTIVE"]
  /\ thread' = thread \cup ({Current} \cap Called)
  /\ Go("on")
  /\ UNCHANGED <<setup, starts, count, refcnt, users, done, lost, kernel, pollVars>>

\* A synchronous delete; without an entry it returns at once.
Delete(s) ==
  IF s \in poll_entries
  THEN poll_entries' = poll_entries \ {s} /\ Send("sync") /\ synced' = FALSE
  ELSE UNCHANGED <<poll_entries, pipe, synced>>

StreamOn ==
  /\ caller.at = "on"
  /\ \/ /\ kernel' = [kernel EXCEPT ![Current].streaming = TRUE]
        /\ NextStream("get")
        /\ UNCHANGED <<poll_entries, pipe, synced>>
     \/ Delete(Current) /\ Go("wait") /\ UNCHANGED kernel
  /\ UNCHANGED <<setup, state, starts, bufVars, poll_fds, poll>>

\* MM_STREAM_EVT_STOP, which only an active stream knows.
StreamOff ==
  /\ caller.at = "off"
  /\ IF state[Current] = "ACTIVE" THEN Delete(Current) /\ Go("wait")
     ELSE Go("unreg") /\ UNCHANGED <<poll_entries, pipe, synced>>
  /\ UNCHANGED <<setup, state, starts, bufVars, kernel, poll_fds, poll>>

Synced ==
  /\ caller.at = "wait" /\ synced
  /\ kernel' = IF caller.op = "start" THEN kernel
               ELSE [kernel EXCEPT ![Current] = [Quiet EXCEPT !.requested = TRUE]]
  /\ Go("join")
  /\ UNCHANGED <<setup, state, starts, bufVars, pollVars>>

\* mm_camera_cmd_thread_release(), with cmd_lock, after what the thread has to do.
\* When the poll thread still handles a frame of the stream, its buffers are about to
\* be given away under it: the caller's further steps are not modelled.
Join ==
  /\ caller.at = "join"
  /\ \A p \in Of(Current) : "thread" \notin users[p] /\ done[<<p, "thread">>] = "no"
  /\ thread' = thread \ {Current}
  /\ state' = [state EXCEPT ![Current] = "REG"]
  /\ \/ Handling(Current) /\ caller' = [NoCall EXCEPT !.at = "lost"]
     \/ ~Handling(Current) /\ caller.op = "start" /\ GiveUp
     \/ ~Handling(Current) /\ caller.op # "start" /\ Go("unreg")
  /\ UNCHANGED <<setup, starts, count, refcnt, users, done, lost, kernel, pollVars>>

UnregBuf ==
  /\ caller.at = "unreg"
  /\ IF state[Current] = "REG"
     THEN /\ kernel' = [kernel EXCEPT ![Current] = Quiet]
          /\ refcnt' = [p \in Pairs |-> IF p[1] = Current THEN 0 ELSE refcnt[p]]
          /\ state' = [state EXCEPT ![Current] = "BUFFED"]
     ELSE UNCHANGED <<kernel, refcnt, state>>
  /\ \/ caller.op = "undo" /\ Go("put")
     \/ caller.op = "stop" /\ caller.i < Len(setup.order) /\ NextStream("off")
     \/ /\ caller.op = "stop" /\ caller.i = Len(setup.order)
        /\ caller' = [caller EXCEPT !.at = "put", !.i = 1]
  /\ UNCHANGED <<setup, starts, count, users, done, thread, lost, pollVars>>

\* mm_camera.c assumes that qbuf has ended by now.
PutBuf ==
  /\ caller.at = "put"
  /\ IF state[Current] = "BUFFED"
     THEN /\ \A p \in Of(Current), u \in Users : done[<<p, u>>] = "no"
          /\ users' = [p \in Pairs |-> IF p[1] = Current THEN {} ELSE users[p]]
          /\ state' = [state EXCEPT ![Current] = "CFG"]
     ELSE UNCHANGED <<users, state>>
  /\ NextStream(IF caller.op = "undo" THEN "off" ELSE "put")
  /\ UNCHANGED <<setup, starts, count, refcnt, done, thread, lost, kernel, pollVars>>

CallGoesOn ==
  \/ GetBuf \/ RequestBuf \/ QueueCounts \/ QueueIoctl \/ Launch \/ StreamOn
  \/ StreamOff \/ Synced \/ Join \/ UnregBuf \/ PutBuf

-----------------------------------------------------------------------------
Next ==
  \/ Start \/ Stop \/ CallGoesOn \/ PollThread
  \/ \E s \in Streams : KernelFills(s)
  \/ \E p \in Pairs : Dispatch(p) \/ \E u \in Users : QBuf(p, u) \/ Finish(p, u)

\* The threads go on with what they do, and the sensor fills the buffers it has;
\* nothing is assumed of those who give buffers back.
Spec ==
  /\ Init /\ [][Next]_vars
  /\ WF_vars(CallGoesOn) /\ WF_vars(PollThread)
  /\ \A s \in Streams : WF_vars(KernelFills(s))
  /\ \A p \in Pairs : WF_vars(Dispatch(p)) /\ \A u \in Users : WF_vars(Finish(p, u))

-----------------------------------------------------------------------------
\* References the poll thread has counted and not given yet.
Ungiven(p) ==
  IF poll.buf # p THEN 0
  ELSE IF poll.at = "give" THEN Refs(p[1])
  ELSE IF poll.at = "call" /\ p[1] \in Called THEN 1 ELSE 0

\* While a stream is active a buffer's reference count is the number of those who
\* have it, so it goes back to the kernel when the last one has given it back and
\* not before.  Once the stream is on, a buffer that nobody has is in the kernel, on its
\* way there or with the poll thread, unless one of the failures that the code only logs
\* (clean_invalidate_buf, invalidate_buf, VIDIOC_QBUF) has lost it; and a lost one
\* stays with nobody until the stream is started again.
BuffersAccounted ==
  \A p \in Pairs :
    /\ state[p[1]] = "ACTIVE" => refcnt[p] = Cardinality(users[p]) + Ungiven(p)
    /\ p[2] \in kernel[p[1]].queued \cup kernel[p[1]].filled =>
         users[p] = {} /\ Ungiven(p) = 0 /\ p \notin lost
    /\ kernel[p[1]].streaming /\ users[p] = {} /\ p[2] \in setup.buffers[p[1]] =>
         \/ p[2] \in kernel[p[1]].queued \cup kernel[p[1]].filled
         \/ poll.buf = p \/ \E u \in Users : done[<<p, u>>] # "no"
         \/ p \in lost
    /\ p \in lost => users[p] = {} /\ Ungiven(p) = 0

\* A stream with buffers in the kernel has its frames read until it is stopped:
\* counting buffers and polling, on three threads, never leaves it unpolled.
FramesArrive ==
  \A s \in Streams :
    (kernel[s].streaming /\ kernel[s].queued # {}) ~> (Handling(s) \/ ~kernel[s].streaming)

\* mm_channel_start() and mm_channel_stop() return: the poll thread answers although
\* it takes cmd_lock, which the caller has while it joins the stream's thread.
CallsReturn == caller.op # "none" ~> caller.op = "none"

\* "In this case wait for all updates to complete before proceeding"
\* (mm_camera_stream.c:1263-1264): when a stream has been stopped the poll thread has
\* none of its frames in its hands.
StopWaits ==
  [][\A s \in Streams : state[s] = "ACTIVE" /\ state'[s] = "REG" => ~Handling(s)]_vars
=============================================================================
