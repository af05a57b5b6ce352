---------------------------- MODULE Hal3Requests ----------------------------
(***************************************************************************)
(* The bookkeeping of capture requests in QCamera3HardwareInterface        *)
(* (HAL3/QCamera3HWI.cpp): the list of pending requests, the map of the    *)
(* buffers the framework lent, the number of live requests that holds the  *)
(* framework back, flush, the restart of the sensor and the error state.   *)
(*                                                                         *)
(* Three parties call in: the framework's request thread (req), its thread *)
(* that flushes (flu), and the callbacks of the channels.  A step is what  *)
(* one of them does under mMutex, or between two acquisitions of it.       *)
(*                                                                         *)
(* The camera is external: it owes the metadata of every live request and  *)
(* the buffers of every request, may skip metadata, and owes nothing once  *)
(* its channels are stopped.                                               *)
(***************************************************************************)
EXTENDS Lists, FiniteSets

CONSTANTS
  Streams,      \* the output streams configured
  Worlds,       \* what may happen, each a record of
                \*   kinds     which requests come, of {"live", "reproc"}
                \*   faults    what may go wrong: see FaultNames
                \*   maxFlush  bound: the flushes called
                \*   min, max  mMinInFlightRequests and mMaxInFlightRequests
  Word,         \* the size of mPendingLiveRequest's type (2^32)
  MaxFrame      \* bound: the requests made

FaultNames ==
  {"refuse",   \* a channel refuses a buffer
   "restart",  \* a frame rate needs another sensor mode
   "timeout",  \* the request thread waits for 5 seconds
   "pull",     \* the daemon asks for more requests
   "stop",     \* the channels cannot be stopped
   "die"}      \* the daemon dies

ASSUME Hal3Assumption ==
  /\ IsFiniteSet(Streams) /\ Streams # {}
  /\ \A w \in Worlds :
       /\ w.kinds \subseteq {"live", "reproc"}
       /\ w.faults \subseteq FaultNames
       /\ w.maxFlush \in Nat
       /\ w.min \in Nat \ {0} /\ w.max \in Nat /\ w.min <= w.max /\ w.max < Word
  /\ Word \in Nat /\ MaxFrame \in Nat

Frame   == 1 .. MaxFrame
Threads == {"req", "flu"}

VARIABLES
  world,        \* what may happen, which stays
  mState,
  mFlush,
  pending,      \* mPendingRequestsList
  bufmap,       \* mPendingBuffersMap.mPendingBuffersInRequest
  live,         \* mPendingLiveRequest
  woken,        \* mWokenUpByDaemon
  signal,       \* mRequestCond was signalled and the waiting thread did not run
  pc,           \* where each of the two threads stands
  call,         \* the request in the hands of req
  camera,       \* what the camera owes: see Camera
  next,         \* the number of the next request
  flushes,      \* how often flush was called
  asked,        \* the streams of every request that was queued
  finals,       \* how often each request was answered
  returned      \* how often each buffer was given back

vars == <<world, mState, mFlush, pending, bufmap, live, woken, signal, pc, call, camera,
          next, flushes, asked, finals, returned>>

lists     == <<pending, bufmap, finals, returned>>
framework == <<call, next, flushes, asked, world>>

\* PendingRequestInfo; cached are the streams whose RequestedBufferInfo holds
\* the buffer already.
Pending == [frame : Frame, input : BOOLEAN, cached : SUBSET Streams]

\* PendingBuffersInRequest.
Lent == [frame : Frame, streams : (SUBSET Streams) \ {{}}]

Request == [frame : Frame, input : BOOLEAN, streams : (SUBSET Streams) \ {{}}]

\* metas: frames whose metadata is due; bufs: buffers in the channels; inputs:
\* requests whose input buffer is in use.
Camera == [stopped : BOOLEAN, dead : BOOLEAN, metas : SUBSET Frame,
           bufs : SUBSET (Frame \X Streams), inputs : SUBSET Frame]

TypeOK ==
  /\ world \in Worlds
  /\ mState \in {"CONFIGURED", "STARTED", "ERROR", "DEINIT"}
  /\ mFlush \in BOOLEAN /\ woken \in BOOLEAN /\ signal \in BOOLEAN
  /\ pending \in Seq(Pending)
  /\ bufmap \in Seq(Lent)
  /\ live \in 0 .. Word - 1
  /\ pc \in [Threads -> {"idle", "restart", "restarted", "relock", "wait", "device",
                         "flush", "stop", "clear", "deviceFlush", "deviceStop",
                         "deviceClear", "deinit"}]
  /\ call \in Request \cup {<< >>}
  /\ camera \in Camera
  /\ next \in 1 .. MaxFrame + 1
  /\ flushes \in 0 .. world.maxFlush
  /\ asked \in [Frame -> SUBSET Streams]
  /\ finals \in [Frame -> Nat]
  /\ returned \in [Frame \X Streams -> Nat]

\* What stopping the channels leaves.
Stopped(c) ==
  [c EXCEPT !.stopped = TRUE, !.metas = {}, !.bufs = {}, !.inputs = {}]

\* configureStreams() has returned.
Init ==
  /\ world \in Worlds
  /\ mState = "CONFIGURED"
  /\ mFlush = FALSE /\ woken = FALSE /\ signal = FALSE
  /\ pending = << >>
  /\ bufmap = << >>
  /\ live = 0
  /\ pc = [t \in Threads |-> "idle"]
  /\ call = << >>
  /\ camera = [stopped |-> FALSE, dead |-> FALSE, metas |-> {}, bufs |-> {},
               inputs |-> {}]
  /\ next = 1
  /\ flushes = 0
  /\ asked = [f \in Frame |-> {}]
  /\ finals = [f \in Frame |-> 0]
  /\ returned = [b \in Frame \X Streams |-> 0]

Go(t, where) == pc' = [pc EXCEPT ![t] = where]
-----------------------------------------------------------------------------
(* The lists.                                                              *)

LentBuffers(m) == UNION {{m[i].frame} \X m[i].streams : i \in DOMAIN m}

\* Variant for the checks: a request whose buffers are all gone stays on the map.
RemoveBufsKeepsEmpty(m, B) ==
  [i \in DOMAIN m |-> [m[i] EXCEPT !.streams = {s \in @ : <<m[i].frame, s>> \notin B}]]

\* removeBuf() for the buffers B: a request without buffers leaves the map.
RemoveBufs(m, B) ==
  LET Left(e) == {s \in e.streams : <<e.frame, s>> \notin B}
      rest == [i \in DOMAIN m |-> [m[i] EXCEPT !.streams = Left(m[i])]]
  IN  Without(rest, [frame : Frame, streams : {{}}])

Return(B) == returned' = [b \in DOMAIN returned |-> returned[b] + (IF b \in B THEN 1 ELSE 0)]

Answer(F) == finals' = [f \in Frame |-> finals[f] + (IF f \in F THEN 1 ELSE 0)]

Find(f) == {i \in DOMAIN pending : pending[i].frame = f}

\* The entries of the map that are not older than the oldest pending request.
NotOlder == {i \in DOMAIN bufmap : pending = << >> \/ bufmap[i].frame >= pending[1].frame}

Unanswered == IF pending = << >> THEN {} ELSE NotOlder

\* Variant for the checks: a request whose frame comes first is taken for answered.
NotifyAllSkipsHead ==
  /\ bufmap' = << >>
  /\ pending' = << >>
  /\ Answer({bufmap[i].frame : i \in {j \in Unanswered : bufmap[j].frame > pending[1].frame}})
  /\ Return(LentBuffers(bufmap))

\* notifyErrorForPendingRequests(): ERROR_BUFFER for what is older than the oldest
\* pending request, ERROR_REQUEST for the rest, each time with the head of the
\* list.  Without a head the code goes on with the list's sentinel.
NotifyAll ==
  LET k == Cardinality(Unanswered)
  IN  /\ bufmap' = << >>
      /\ pending' = SubSeq(pending, k + 1, Len(pending))
      /\ Answer({bufmap[i].frame : i \in Unanswered})
      /\ Return(LentBuffers(bufmap))
-----------------------------------------------------------------------------
(* processCaptureRequest().                                                *)

Requests ==
  [frame : {next} \cap Frame, input : {k = "reproc" : k \in world.kinds}, streams : (SUBSET Streams) \ {{}}]

MustWait(n, state) == n >= world.min /\ state \notin {"ERROR", "DEINIT"}

\* Both lists have request r, whatever happens to it.
Record(r) ==
  /\ pending' = Append(pending, [frame |-> r.frame, input |-> r.input, cached |-> {}])
  /\ bufmap' = Append(bufmap, [frame |-> r.frame, streams |-> r.streams])
  /\ asked' = [asked EXCEPT ![r.frame] = r.streams]
  /\ UNCHANGED <<finals, returned>>

\* The channels of the streams S have their buffers; metas is what is due as well.
Pass(r, S, metas) ==
  camera' = [camera EXCEPT !.bufs = @ \cup ({r.frame} \X S),
                           !.inputs = IF r.input THEN @ \cup {r.frame} ELSE @,
                           !.metas = @ \cup metas]

\* A live request has gone to the camera and counts; the thread waits or returns.
Sent(r, n) ==
  /\ Pass(r, r.streams, IF r.input THEN {} ELSE {r.frame})
  /\ live' = IF r.input THEN n ELSE (n + 1) % Word
  /\ mState' = "STARTED"
  /\ Go("req", IF ~r.input /\ MustWait(live', mState') THEN "wait" ELSE "idle")

\* The second half: while a flush is under way the request is recorded only; a
\* channel that refuses its buffer ends the call; n is mPendingLiveRequest.
Submit(r, n) ==
  /\ Record(r)
  /\ \/ mFlush /\ live' = n /\ Go("req", "idle") /\ UNCHANGED <<mState, camera>>
     \/ ~mFlush /\ Sent(r, n)
     \/ /\ ~mFlush /\ "refuse" \in world.faults
        /\ \E S \in (SUBSET r.streams) \ {r.streams} : Pass(r, S, {})
        /\ live' = n /\ Go("req", "idle") /\ UNCHANGED mState
  /\ UNCHANGED <<mFlush, signal, flushes, world>>

\* Variant for the checks: the state is not looked at.
ProcessCaptureRequestUnchecked(r) ==
  /\ pc["req"] = "idle" /\ next' = next + 1
  /\ Submit(r, live)
  /\ UNCHANGED <<call, woken>>

\* The first request after configureStreams() resets the counters; a new frame rate
\* lets go of the lock to restart the sensor.
ProcessCaptureRequest(r) ==
  /\ pc["req"] = "idle" /\ next' = next + 1
  /\ \/ mState = "CONFIGURED" /\ woken' = FALSE /\ Submit(r, 0) /\ UNCHANGED call
     \/ mState = "STARTED" /\ Submit(r, live) /\ UNCHANGED <<woken, call>>
     \/ /\ mState = "STARTED" /\ ~r.input /\ "restart" \in world.faults
        /\ call' = r
        /\ Go("req", "restart")
        /\ UNCHANGED <<mState, mFlush, lists, live, woken, signal, camera, flushes, asked, world>>

\* In the error state the call fails, and reports the error on its way.
RefuseRequest ==
  /\ pc["req"] = "idle" /\ next \in Frame
  /\ \/ mState = "ERROR" /\ Go("req", "device")
     \/ mState = "DEINIT" /\ UNCHANGED pc
  /\ next' = next + 1
  /\ UNCHANGED <<mState, mFlush, lists, live, woken, signal, call, camera, flushes, asked, world>>

\* dynamicUpdateMetaStreamInfo(), without the lock.
RestartStop ==
  /\ pc["req"] = "restart"
  /\ camera' = Stopped(camera)
  /\ Go("req", "restarted")
  /\ UNCHANGED <<mState, mFlush, lists, live, woken, signal, framework>>

RestartNotify ==
  /\ pc["req"] = "restarted"
  /\ NotifyAll
  /\ camera' = [camera EXCEPT !.stopped = FALSE]
  /\ Go("req", "relock")
  /\ UNCHANGED <<mState, mFlush, live, woken, signal, framework>>

\* With the lock again, and without another look at the state.
RestartSubmit ==
  /\ pc["req"] = "relock"
  /\ Submit(call, live)
  /\ call' = << >>
  /\ UNCHANGED <<woken, next>>

\* Variant for the checks: a pull lets the thread go however many are in flight.
WakeUpAtOnce ==
  /\ pc["req"] = "wait" /\ signal
  /\ signal' = FALSE
  /\ woken' = FALSE
  /\ Go("req", IF woken \/ ~MustWait(live, mState) THEN "idle" ELSE "wait")
  /\ UNCHANGED <<mState, mFlush, lists, live, camera, framework>>

WakeUp ==
  /\ pc["req"] = "wait" /\ signal
  /\ signal' = FALSE
  /\ woken' = FALSE
  /\ Go("req", IF (woken /\ live < world.max) \/ ~MustWait(live, mState) THEN "idle"
                                                                         ELSE "wait")
  /\ UNCHANGED <<mState, mFlush, lists, live, camera, framework>>

\* -ENODEV after 5 seconds: the framework makes no further request.
TimeOut ==
  /\ pc["req"] = "wait" /\ "timeout" \in world.faults
  /\ Go("req", "idle")
  /\ next' = MaxFrame + 1
  /\ UNCHANGED <<mState, mFlush, lists, live, woken, signal, call, camera, flushes, asked, world>>

Unblock == signal' = (pc["req"] = "wait")
-----------------------------------------------------------------------------
(* The callbacks, under mMutex.                                            *)

Failed == mState \in {"ERROR", "DEINIT"}

Running == ~camera.stopped /\ ~camera.dead

\* Variant for the checks: the buffers sent with the result stay on the map.
MetadataKeepsBuffers(f) ==
  LET done(p)   == p.frame <= f /\ ~p.input
      Answered  == {i \in DOMAIN pending : done(pending[i])}
  IN  /\ pending' = Without(pending, {pending[i] : i \in Answered})
      /\ live' = (live - Cardinality(Answered)) % Word
      /\ Answer({pending[i].frame : i \in Answered})
      /\ Return(UNION {{pending[i].frame} \X pending[i].cached : i \in Answered})
      /\ UNCHANGED bufmap

Metadata(f) ==
  LET done(p)   == p.frame <= f /\ ~p.input
      Answered  == {i \in DOMAIN pending : done(pending[i])}
      Buffers   == UNION {{pending[i].frame} \X pending[i].cached : i \in Answered}
  IN  /\ pending' = Without(pending, {pending[i] : i \in Answered})
      /\ bufmap' = RemoveBufs(bufmap, Buffers)
      /\ live' = (live - Cardinality(Answered)) % Word
      /\ Answer({pending[i].frame : i \in Answered})
      /\ Return(Buffers)

\* handleMetadataWithLock(): the live requests up to this frame are answered, each
\* with the buffers that came before its metadata.
HandleMetadata(f) ==
  /\ Running /\ f \in camera.metas
  /\ camera' = [camera EXCEPT !.metas = {g \in @ : g > f}]
  /\ IF Failed THEN UNCHANGED <<lists, live, signal>>
               ELSE Metadata(f) /\ Unblock
  /\ UNCHANGED <<mState, mFlush, woken, pc, framework>>

\* The same for metadata that is of no request.
HandleEmptyMetadata ==
  /\ Running /\ ~Failed
  /\ pc["req"] = "wait"
  /\ Unblock
  /\ UNCHANGED <<mState, mFlush, lists, live, woken, pc, camera, framework>>

\* handleBufferWithLock(): the buffer of a live request waits for its metadata, that
\* of a reprocess request completes it, and a late one goes straight back.
HandleBuffer(f, s) ==
  /\ Running /\ <<f, s>> \in camera.bufs
  /\ camera' = [camera EXCEPT !.bufs = @ \ {<<f, s>>}, !.inputs = @ \ {f}]
  /\ \/ Failed /\ UNCHANGED lists
     \/ /\ ~Failed
        /\ \E i \in Find(f) :
             /\ ~pending[i].input
             /\ pending' = [pending EXCEPT ![i].cached = @ \cup {s}]
        /\ UNCHANGED <<bufmap, finals, returned>>
     \/ /\ ~Failed
        /\ \A k \in Find(f) : pending[k].input
        /\ pending' = Without(pending, {pending[i] : i \in Find(f)})
        /\ bufmap' = RemoveBufs(bufmap, {<<f, s>>})
        /\ Answer({pending[i].frame : i \in Find(f)})
        /\ Return({<<f, s>>})
  /\ UNCHANGED <<mState, mFlush, live, woken, signal, pc, framework>>

\* Variant for the checks: the answered request is not erased from the list.
HandleInputBufferKeeps(f) ==
  /\ Running /\ f \in camera.inputs
  /\ camera' = [camera EXCEPT !.inputs = @ \ {f}]
  /\ Answer({pending[i].frame : i \in Find(f)})
  /\ UNCHANGED <<mState, mFlush, pending, bufmap, returned, live, woken, signal, pc,
                 framework>>

\* handleInputBufferWithLock(): the input buffer goes back with the result, its
\* output may still have to be encoded.
HandleInputBuffer(f) ==
  /\ Running /\ f \in camera.inputs
  /\ camera' = [camera EXCEPT !.inputs = @ \ {f}]
  /\ pending' = Without(pending, {pending[i] : i \in Find(f)})
  /\ Answer({pending[i].frame : i \in Find(f)})
  /\ UNCHANGED <<mState, mFlush, bufmap, returned, live, woken, signal, pc, framework>>

\* camEvtHandle(CAM_EVENT_TYPE_DAEMON_PULL_REQ).
DaemonPull ==
  /\ "pull" \in world.faults /\ ~camera.dead
  /\ ~woken \/ pc["req"] = "wait"
  /\ woken' = TRUE
  /\ Unblock
  /\ UNCHANGED <<mState, mFlush, lists, live, pc, camera, framework>>

\* camEvtHandle(CAM_EVENT_TYPE_DAEMON_DIED): nobody is woken.
DaemonDies ==
  /\ "die" \in world.faults /\ ~camera.dead
  /\ camera' = [camera EXCEPT !.dead = TRUE]
  /\ mState' = "ERROR"
  /\ UNCHANGED <<mFlush, lists, live, woken, signal, pc, framework>>
-----------------------------------------------------------------------------
(* configureStreams(), flush() and handleCameraDeviceError().              *)

\* The framework configures when it has everything back.
ConfigureStreams ==
  /\ \A t \in Threads : pc[t] = "idle"
  /\ mState = "STARTED" /\ bufmap = << >> /\ pending = << >>
  /\ mState' = "CONFIGURED"
  /\ camera' = [Stopped(camera) EXCEPT !.stopped = FALSE]
  /\ UNCHANGED <<mFlush, lists, live, woken, signal, pc, framework>>

\* The static flush() looks at the state and lets go of the lock.
Flush ==
  /\ pc["flu"] = "idle" /\ flushes < world.maxFlush
  /\ flushes' = flushes + 1
  /\ \/ mState = "STARTED" /\ Go("flu", "flush")
     \/ mState = "ERROR" /\ Go("flu", "device")
  /\ UNCHANGED <<mState, mFlush, lists, live, woken, signal, camera, call, next, asked, world>>

FlushBegin(t) ==
  /\ \/ pc[t] = "flush" /\ Go(t, "stop")
     \/ pc[t] = "deviceFlush" /\ Go(t, "deviceStop")
  /\ mFlush' = TRUE
  /\ UNCHANGED <<mState, lists, live, woken, signal, camera, framework>>

\* stopAllChannels(); when it fails, flush() ends there.
FlushStop(t) ==
  /\ \/ pc[t] = "stop" /\ Go(t, "clear")
     \/ pc[t] = "deviceStop" /\ Go(t, "deviceClear")
     \/ pc[t] = "stop" /\ "stop" \in world.faults /\ Go(t, "idle")
     \/ pc[t] = "deviceStop" /\ "stop" \in world.faults /\ Go(t, "deinit")
  /\ camera' = Stopped(camera)
  /\ UNCHANGED <<mState, mFlush, lists, live, woken, signal, framework>>

\* Variant for the checks: the number of live requests is not reset.
FlushClearKeepsCount(t) ==
  /\ \/ pc[t] = "clear" /\ Go(t, "idle") /\ camera' = [camera EXCEPT !.stopped = FALSE]
     \/ pc[t] = "deviceClear" /\ Go(t, "deinit") /\ UNCHANGED camera
  /\ Unblock
  /\ NotifyAll
  /\ mFlush' = FALSE
  /\ UNCHANGED <<mState, live, woken, framework>>

\* Under the lock: everything pending is answered, and the channels start again.
FlushClear(t) ==
  /\ \/ pc[t] = "clear" /\ Go(t, "idle") /\ camera' = [camera EXCEPT !.stopped = FALSE]
     \/ pc[t] = "deviceClear" /\ Go(t, "deinit") /\ UNCHANGED camera
  /\ live' = 0
  /\ Unblock
  /\ NotifyAll
  /\ mFlush' = FALSE
  /\ UNCHANGED <<mState, woken, framework>>

\* Variant for the checks: no flush before DEINIT.
DeviceErrorSkipsFlush(t) ==
  /\ pc[t] = "device"
  /\ Go(t, IF mState = "ERROR" THEN "deinit" ELSE "idle")
  /\ UNCHANGED <<mState, mFlush, lists, live, woken, signal, camera, framework>>

\* handleCameraDeviceError(): the state again, then the flush, then DEINIT.
DeviceError(t) ==
  /\ pc[t] = "device"
  /\ Go(t, IF mState = "ERROR" THEN "deviceFlush" ELSE "idle")
  /\ UNCHANGED <<mState, mFlush, lists, live, woken, signal, camera, framework>>

Deinit(t) ==
  /\ pc[t] = "deinit"
  /\ mState' = "DEINIT"
  /\ Go(t, "idle")
  /\ UNCHANGED <<mFlush, lists, live, woken, signal, camera, framework>>
-----------------------------------------------------------------------------
Req ==
  \/ \E r \in Requests : ProcessCaptureRequest(r)
  \/ RefuseRequest \/ ConfigureStreams

ReqGoesOn == RestartStop \/ RestartNotify \/ RestartSubmit \/ WakeUp \/ TimeOut

Flushing(t) == FlushBegin(t) \/ FlushStop(t) \/ FlushClear(t) \/ DeviceError(t) \/ Deinit(t)

Callback ==
  \/ \E f \in Frame : HandleMetadata(f) \/ HandleInputBuffer(f)
  \/ \E f \in Frame, s \in Streams : HandleBuffer(f, s)
  \/ HandleEmptyMetadata \/ DaemonPull \/ DaemonDies

Next == Req \/ ReqGoesOn \/ Flush \/ (\E t \in Threads : Flushing(t)) \/ Callback

\* What the camera does for every request it has: the last metadata that is due
\* comes, and so do all buffers.
CameraServes ==
  /\ \A f \in Frame : WF_vars(HandleMetadata(f) /\ (\A g \in camera.metas : g <= f))
  /\ \A f \in Frame, s \in Streams : WF_vars(HandleBuffer(f, s))

\* A thread that is inside a call goes on.
Spec ==
  /\ Init /\ [][Next]_vars
  /\ WF_vars(ReqGoesOn)
  /\ \A t \in Threads : WF_vars(Flushing(t))
  /\ CameraServes
-----------------------------------------------------------------------------
Queued       == {f \in Frame : asked[f] # {}}
AskedBuffers == {b \in Frame \X Streams : b[2] \in asked[b[1]]}

\* Nothing goes wrong but a flush.
Undisturbed == world.faults \subseteq {"pull"}

\* Every buffer of every request the HAL took is either on mPendingBuffersMap or was
\* given back exactly once: by its result, late, or by a flush.
BuffersAccounted ==
  \A b \in AskedBuffers : returned[b] = IF b \in LentBuffers(bufmap) THEN 0 ELSE 1

\* A request leaves mPendingRequestsList with one answer, its result or
\* ERROR_REQUEST, and never gets a second one.
AnsweredOnce ==
  \A f \in Queued : finals[f] = IF Find(f) = {} THEN 1 ELSE 0

\* mPendingLiveRequest is the number of requests whose metadata the camera owes, at
\* most mMaxInFlightRequests, also when the daemon lets one more in.
LiveCount ==
  Undisturbed /\ ~camera.stopped => live = Cardinality(camera.metas) /\ live <= world.max

\* When flush() has ended, whatever was queued before or during it has been
\* answered and every buffer is back with the framework.
FlushLeavesNothing ==
  [][Undisturbed /\ mFlush /\ ~mFlush' =>
       \A f \in Queued : finals'[f] = 1 /\ \A s \in asked[f] : returned'[<<f, s>>] = 1]_vars

\* A request that was queued is answered and gets its buffers back in the end,
\* also one that came in the middle of a flush.  (Requests are bounded and stay
\* queued, answered and returned, so this is a leads-to for each of them.)
EveryRequestAnswered ==
  Undisturbed ~> \A f \in Queued : finals[f] = 1 /\ \A s \in asked[f] : returned[<<f, s>>] = 1

\* The request thread always returns to the framework, without its time-out.
ProcessReturns == (pc["req"] # "idle" /\ Undisturbed) ~> pc["req"] = "idle"

\* The table of state transitions in QCamera3HWI.h: from ERROR only to DEINIT, from
\* DEINIT nowhere.
StateTable ==
  [][/\ mState = "ERROR" => mState' \in {"ERROR", "DEINIT"}
     /\ mState = "DEINIT" => mState' = "DEINIT"]_mState

\* In DEINIT the framework has been told that the device is lost: nothing is left
\* on the lists.
NothingAfterDeinit == mState = "DEINIT" => pending = << >> /\ bufmap = << >>
=============================================================================
