# Verification of the camera stack of `android_device_huawei_bach`

The repository is the device tree of the Huawei MediaPad M3 Lite 10 (bach): build files,
configuration and overlays, and the source of the camera HAL, the GPS HAL, a fingerprint
service and a few small programs. This project models, checks and proves parts of its
own concurrent logic, which is in `src/camera/QCamera2` and `src/gps`: of the camera, the
command threads, the streams with their buffers and the poll thread, the queue that joins the
buffers of several streams into super buffers, the HAL1 API with its state machine and its
postprocessor, the bookkeeping of capture requests in the HAL3, and the jobs of the JPEG
encoder; of the GPS, the AGPS manager.

`BoardConfig.mk` sets `TARGET_SUPPORT_HAL1 := false`, so that of the two HALs the image
of this device holds only the HAL3; `util/`, `mm-camera-interface` and `mm-jpeg-interface`
are used by both. The HAL1 is modelled because it is in the tree and most of its value is
in its concurrency.

## 1. Inventory

Paths are relative to `src/camera/QCamera2/` unless they begin with `src/`.

| component | source | state | operations | talks to |
|---|---|---|---|---|
| Command threads, queues | `util/QCameraQueue.cpp`, `util/QCameraCmdThread.cpp` | the list and its `m_active`; `cmd_sem`, `sync_sem`, `cmd_pid` | enqueue (with priority), dequeue, flush; launch, sendCmd, getCmd, exit | every thread of the HAL1 and the HAL3 postprocessor own one |
| Superbuf queue | `stack/mm-camera-interface/src/mm_camera_channel.c` | the nodes, `match_cnt`, expected and good frame | compare and enqueue, dequeue, overflow, skip, flush, metadata | the channel's threads; its buffers come from streams and go to the HAL |
| Channel, frame sync, streams, camera object, poll thread | `stack/mm-camera-interface/src/` | state of each object, reference counts of buffers, `poll_entries`, pipe commands | one handler per state and event | the kernel driver, the camera daemon over a socket, the HAL by callbacks |
| HAL1 state machine | `HAL/QCameraStateMachine.cpp` | `m_state`: eight states | one handler per state for every call and event | called by its thread; calls into `QCamera2HWI` |
| HAL1 API, results, notifier | `HAL/QCamera2HWI.cpp`, `HAL/QCamera2HWICallbacks.cpp` | `m_apiResultList`, the flags of longshot and retro pictures, the two event queues, the notifier's queue | lockAPI/processAPI/waitAPIResult, sendCommand, processEvt, processSyncEvt, closeCamera | the framework's threads, state machine thread, camera callbacks |
| HAL1 deferred work, postprocessor, streams, muxer, parameters | `HAL/` | job table, queues of jobs, buffers | queue, do, wait; process, encode, release | command threads |
| HAL3 requests | `HAL3/QCamera3HWI.cpp` | `mPendingRequestsList`, `mPendingBuffersMap`, `mPendingLiveRequest`, `mState`, `mFlush` | configure_streams, process_capture_request, flush, result callbacks, camera events | framework threads, channels, daemon |
| HAL3 channels, postprocessor | `HAL3/QCamera3Channel.cpp`, `HAL3/QCamera3PostProc.cpp` | queues of reprocess and JPEG jobs | process, encode, release | HAL3 requests, JPEG interface |
| JPEG interface | `stack/mm-jpeg-interface/src/` | sessions, ongoing and ready queues | start, abort, done | OMX component, postprocessor |
| GPS | `src/gps/` | AGPS connection and subscribers, sessions, timers, message queue | requests, events of the modem, time-outs | message task, framework |
| Fingerprint | `src/biometrics/BiometricsFingerprint.cpp` | callback, device handle | HIDL methods | the vendor's library |
| The rest | build files, overlays, policies, init and settings programs | none worth a model | | |

What is hard in it:

* **Interleaving.** sendCmd puts a node, posts a semaphore and waits on another in three
  steps; waiters of API results share a list and one condition; the HAL3's request thread
  gives up its lock during a sensor restart, and flush between its two halves.
* **Ordering.** API calls overtake internal events; priority commands are last in, first
  out; buffers of several streams come in any order, and metadata may be lost.
* **Failure.** The daemon dies while callers wait for answers that only it can cause;
  a cache operation or an ioctl fails with a buffer in hand that is then nobody's; channels refuse buffers or cannot be stopped; a time-out gives up on requests which are
  answered later; a JPEG job is given up while its answer is on the way; the start of a
  channel fails after some of its streams run.
* **Bounds and counters.** `match_cnt` and the list of super buffers are kept apart, as are
  `mPendingLiveRequest` and the list of requests; both decide whether a thread waits.

The properties that make a component correct: for a command thread, one token for each
command, and synchronous means done; for the superbuf queue, buffers of one frame only, each
with exactly one owner, and a counter that agrees with the list; for the HAL1, one answer for
each call in each state, and a state that agrees with the camera; for the HAL3, one answer
for each request, each buffer back once, a request thread that sleeps only when something
will wake it; for a stream, reference counts that agree with those who have the buffers, and an
entry polled while the kernel has some; for the postprocessor, one owner for each frame until it
is given back (or, a raw one that was copied, forgotten), a picture made of its own shot, and nothing left behind by stop(); for the JPEG
jobs, one answer each; for AGPS, a modem that is told what is so. The list `hazards` of `PROJECT.json` names the lines where each of these could
go wrong and the properties that would show it.

## 2. Modules

| module | models | uses |
|---|---|---|
| `CamQueue` | `QCameraQueue`: each operation as an operator on a queue | |
| `CmdMailbox` | the abstract promise of a command thread | |
| `CmdThread` | `QCameraCmdThread` with its callers and its worker | `CamQueue`; implements `CmdMailbox` |
| `CmdThreadProofs` | proofs for any producers, calls and bounds, with the refinement | `CmdThread` |
| `SuperbufQueue` | `mm_channel_queue_t` and every function that changes it | |
| `SuperbufProofs` | proofs of the buffers, the order and the count, for any streams and bounds and either priority | `SuperbufQueue` |
| `StateMachine` | the eight state handlers of the HAL1 as a function | |
| `HalApi` | callers, results, state machine thread, notifier, camera, close | `StateMachine` |
| `HalApiProofs` | proofs of the answers and the capture states, for any callers and worlds | `HalApi` |
| `Hal3Requests` | requests, buffers, flush, restart and errors of the HAL3 | `Lists` |
| `Hal3Proofs` | proofs for any worlds, requests and flushes | `Hal3Requests` |
| `PostProc` | `QCameraPostProcessor`: its six queues and three threads | `CamQueue`, `Lists`; its command boxes are those `CmdMailbox` promises |
| `PostProcProofs` | proofs for any worlds without refusals, shots and sessions | `PostProc` |
| `JpegService` | the abstract promise of the JPEG interface | |
| `JpegJobs` | clients, job manager and callbacks of the JPEG interface | `Lists`; implements `JpegService` |
| `JpegProofs` | proofs for any clients and jobs, with the refinement | `JpegJobs` |
| `Streams` | the streams of a channel, their buffers, the poll thread | |
| `StreamsProofs` | proofs for any streams, buffers and starts | `Streams` |
| `Agps` | `AgpsManager` and `AgpsStateMachine`, modem and framework | |
| `AgpsProofs` | proofs for any handles and number of requests | `Agps` |
| `Lists` | the list operation that `Hal3Requests`, `PostProc` and `JpegJobs` share | |
| `MC...` | constants for TLC | |

Each definition is tied to its lines by `map` in `PROJECT.json`. Definitions whose comment
begins with *Variant* are plausible slips of the code (a dropped guard, a missing reset, an
off-by-one); no specification uses them. Each property of each passing run is known to fail
when one of them is put in the place of the definition that follows it.

### CmdThread

`cmd_queue`, `cmd_sem`, `sync_sem` and `cmd_pid` are the members of the class. sendCmd is
three actions: `Put` (enqueue, at the head with priority), `Post` (cam_sem_post) and, for a
synchronous call, `SyncReturn` (cam_sem_wait of `sync_sem`). The worker's loop is `Wake`,
`GetCmd` and `RunCmd`; it acknowledges the commands in `AckCmds`. `OwnerExits` is exit(), which
sends EXIT with priority and joins (`ExitReturn`). `OwnerCalls` and `AckCmds` say which of the
HAL's many users is meant; the run takes the postprocessor. cmd_queue is never flushed nor
made inactive while the owner lives, so a node is never refused. `Mailbox` maps the state to
`CmdMailbox` by forgetting both semaphores; what `MailboxSpec` says is that nobody sees them: a command sent
is taken without more ado, commands are taken in order, priority first.

### SuperbufQueue

`nodes` is the list, its head first, each node with the frame in each stream's slot; `held` and
`given` are the buffers taken from the kernel and those handed to the HAL. One arriving
buffer is one action, one of five branches of `mm_channel_superbuf_comp_and_enqueue`:
`DropOld`, `DropUnplaced`, `Fill` (a node that stays incomplete), `Match` (a node that becomes
complete, with the removal of older ones) and `Insert` (with the removal that makes room).
The other actions are `Dequeue`, `DequeueFrame`, `DropExcess` (one turn of the loops of overflow
and skip), `Flush`, `FlushMatched`, `Settle` and `BufDone`. Whatever metadata and capture
requests do to the four frame numbers, they set them to a member of `Retargets`; the proofs
hold for every such set. All runs under `queue->que.lock` in one thread, so each function is
one step. `low` is the priority, chosen once: with low priority a buffer may join the node of
another frame.

### StateMachine and HalApi

`Handle(state, event, flags, luck)` is the table of `procEvt...State`: the next state, the API
results signalled and the work asked of the camera (`take`, `prepare`, `cancel`). Events whose
handlers differ in nothing but the function they pass on to (parameters, buffers, tuning)
are one event, `QUERY`. `luck` is what the camera functions return.

In `HalApi` a caller holds `m_lock` from the enqueue until it waits on `m_cond`, so `Call` is one
step; `Return` is one turn of the loop in waitAPIResult. The state machine thread takes calls
first (`SmCall`), then events (`SmEvt`), and its EXIT (`SmExit`). The camera delivers `MetaPrep`
(metadata of a prepared frame), `FrameReady` (the last retro frame) and `StopCapture`
(the capture channel is done). The notifier is `NotifierCmd` (START and STOP, queued with
priority), `NotifierAll` (the last JPEG, after which it waits in processSyncEvt) and
`NotifierExit`. `Close`, `ExitNotifier` and `CloseReturn` are the destructor and closeCamera.
`DaemonDies` stops the camera's deliveries and does no more: camEvtHandle wakes the jobs that wait on
`mDefCond`, which are not modelled, and leaves the `switch`, so that the state machine never gets
QCAMERA_SM_EVT_EVT_NOTIFY with DAEMON_DIED (`HAL/QCamera2HWI.cpp:6048-6056`), and `Handle` has none of
its branches for it. A caller is `Stranded` who waits for an answer that the dead camera owes; `ApiReturns`
excepts him and nobody else. The daemon may die in the worlds of stills and videos and of retro pictures.
A `world` fixes the modes, whether the picture is a retro one, and the sequences of calls each
caller makes; Init is a HAL just opened, with a window.

### Hal3Requests

A step is what a thread does under `mMutex` or between two acquisitions of it. The request
thread's `ProcessCaptureRequest` may end with the answer, sleep in the wait for fewer requests
in flight (`WakeUp`, `TimeOut`), be refused, or pass through a sensor restart
(`RestartStop`, `RestartNotify`, `RestartSubmit`) during which the lock is free. `Flush` is the
static entry; `FlushBegin`, `FlushStop` and `FlushClear` are the two locked parts of flush and
stopAllChannels between them; `DeviceError` and `Deinit` are handleCameraDeviceError.
`HandleMetadata`, `HandleBuffer`, `HandleInputBuffer`, `HandleEmptyMetadata`, `DaemonPull` and
`DaemonDies` are the callbacks. The camera is external: it owes metadata for each live
request and all buffers, may skip metadata, and owes nothing once its channels are stopped.
`finals` and `returned` count the answers and the buffers the framework has got. The arithmetic
of `mPendingLiveRequest` wraps at `Word`. A `world` says which kinds of request there are, what
may fail, how often flush is called and how many requests may be in flight; `Undisturbed` worlds
are those where nothing fails, for which the count of live requests and the liveness are stated.

Left out: partial (urgent) results, the list of dropped frames, failure of
startAllChannels, flushPerf (nobody calls it), batches (each metadata of a batch is taken
singly). Configuring is modelled under the framework's contract, when everything is back. A
sensor restart happens in STARTED only.

### PostProc

`q` holds the six queues of the class; a pp job is a block of memory (`mem`, `alloc`), as
one that is freed while a queue still has it can be met again, or its block reused. The thread of
the state machine makes `Start`, `Stop` (which waits for the data thread to flush the queues one by
one: `DFlush`), `DeleteChannels` and `ProcessJpegEvt`; dataProcessRoutine is `DataProc`
(`DJpeg`, `DEncode`, `DStoreId`, `DRaw`, `DReproc`, `DAsk`, their failures, start and stop);
dataSaveRoutine is `SaveThread`; processPPData runs on a thread of each channel, `Callback`, in up to
three steps. Encoder, channels and source are external. In a `world` with `early` a JPEG event may be
handled before encodeData() has stored the job id. JPEG events are handled only while the state
machine is in a state that takes pictures; one that is left over may meet the next session.
An output that comes while the session is being stopped finds no job: an orphan.

A frame counts the passes it went through. Between channels that do not answer in order, an output
may meet the job of another frame and be asked for once more than there are passes; `MaxPass` bounds that.

`done` counts how often a frame left the postprocessor. A raw frame whose picture is its own buffer
(`ZslChannelUsed`) goes back when the application has released it, and one whose callback failed goes back at once. Of any other
the picture is a copy, and the code forgets the frame without giving it back (`HAL/QCameraPostProc.cpp:2602`,
`2670`, `2977`): it is `kept`, an output of a reprocess channel until the channel is deleted, a frame of the
source channel for good. `FramesReturned` and `StoppedClean` say that no other frame
is kept. Left out are raw pictures the HAL takes for itself (`m_bIntRawEvtPending`, `:2632`) and a client that does not
want CAMERA_MSG_COMPRESSED_IMAGE (`:2667`), with which frames are kept in ZSL mode too, and a failing sendDataNotify.

The four invariants and `Answered` speak of worlds in which no channel refuses a frame (`NoRefusal`).
With a refusal not only `FramesReturned` fails, which `postproc_refused` shows: once there are three
shots and buffers to hold them, TLC also finds a frame given back twice, a picture made of two shots, and
a frame left behind by stop(), as the freed block that is still on the queue is given to the next job.
With two shots TLC finds none of these three.

### JpegService and JpegJobs

`job_queue`, `job_sem`, `ongoing_job_q`, `job_lock` and `session` are the source's. The calls go one at
a time (`api`, g_intf_lock): `CreateSession`, `StartJob`, `AbortJob`, `DestroySession`, `Close`, the last
three in steps that wait for the component or the manager. `Mgr` is the job manager thread:
it throws its wake-up away when a job is under way, and puts a job back whose session has no
handle. The callback is `Finishes`, `Idles`, `JobRemoved`, `HandleFreed`, `JobDone`, with the session's
lock and no other. `JpegService` is what clients count on: a started job is answered once or
given up, and not answered after that; `ServiceSpec` is the refinement by `status`, with liveness.
This board has one OMX handle per session (`Android.mk:44`). Once the manager
has set `encoding`, OMX_EmptyThisBuffer and OMX_FillThisBuffer are taken to succeed. `MaxWakes` lets
old wake-ups be left over, which a real manager has from aborted jobs.

### Streams

The thread that holds ch_lock starts and stops the streams one by one (`caller`: `Start`, `GetBuf`,
`RequestBuf`, `QueueCounts`, `QueueIoctl`, `Launch`, `StreamOn`; `Stop`, `StreamOff`, `Synced`, `Join`,
`UnregBuf`, `PutBuf`), and undoes what it did when a step fails. The poll thread
(`PollThread`) reads a command or a frame, counts the references, gives the buffer to its users and
goes on; `Dispatch` is the stream's thread; `QBuf` and the two steps of `Finish` are
mm_stream_buf_done() by any user, with the count and the poll entry in one step and the ioctl in
another. A stream may be stopped while the poll thread has one of its frames in its hands, because
the poll thread deleted the entry itself or because a buf_done put it back after
the delete; what happens next is undefined, as the buffers are freed, and `caller` ends in "lost",
which is not followed.

Any step of a start may fail, and so may what moves a buffer while the stream runs: the cache operation after
DQBUF (`ReadMsmFrame`; `mm_camera_stream.c:1569`), the one before VIDIOC_QBUF (`QBufCounts`; `:1771`) and
VIDIOC_QBUF (`QBufIoctl`; `:1802`). The code returns from each with the buffer's count of references at zero
and the buffer not in the kernel, and the callers return or log it (`:331`, `:4776`). `lost`, which is not in the code,
is the set of these buffers; the next start of the stream queues them again. `BuffersAccounted` says that there is
no other way to lose a buffer and that a lost one is with nobody, not with a user who gives it back a second time. Left out are
a failing DQBUF, after which the kernel still has the frame, and a failing add of a poll entry.
`PutBuf` assumes that no qbuf is under way, as `mm_camera.c` does (:552).

### Agps

`mState` and `mSubscriberList` are those of the machines, `msgs` the adapter's message queue. `Request`
and `Release` are the modem's requestATL and releaseATL, `Handle` the adapter's thread, `Framework`
and `Lost` what the framework reports: opened, failed, closed, in the order in which it was
asked per interface. An open with an unusable APN is reported as a close on the framework's
own thread (`OpensUnusable`), and an answer without an APN, be it a failure, is dropped
(`OpenDropped`). A PENDING machine ignores the former and never hears of the latter; `ignored` remembers
that, and `EveryRequestAnswered` promises nothing after it. reportAtlClosed() runs on that thread in several
steps without a lock (`GnssAdapter.cpp:4381`), which are one step here: how it meets a handler that the
adapter's thread is in the middle of is not modelled. Nobody waits for a close to complete, so the state
RELEASING and inactive subscribers do not occur.

## 3. Runs

| run | question | bounds |
|---|---|---|
| `cmd_thread` | Is the worker woken exactly for what it finds, does a synchronous call return, and only after its own command, does exit return, and is all this a mailbox? | two producers and the owner, three nodes, one answer left over |
| `superbuf` | Does a queue of normal priority keep matched nodes first and counted, the rest bounded, one frame in a node, and lose no buffer? With low priority, where a buffer may join another frame's node, is its slot free? | metadata, snapshot and preview, four frames, one unmatched node, marks 0 and 1, the metadata of `Some` |
| `hal_api` | Has each API call one answer, in every state and whether the daemon lives or not, and does it return, unless the daemon died and owes the answer? Does the state agree with the camera, and does the notifier get its answer? | two callers; stills and videos (three operations, two pictures), zero shutter lag, longshot, late windows, live snapshots (three, two), retro pictures (two, one) |
| `hal3` | Is every request answered once and every buffer back once, whatever fails? Undisturbed: is the number of live requests exact and bounded around a flush and the daemon's pull, does flush leave nothing behind, does process_capture_request return without its time-out, is every request answered in the end? | two streams, three requests; four worlds: live with a flush; reprocess without; death of the daemon; refusals, restarts and channels that cannot be stopped, each with one flush |
| `postproc` | Has every frame one owner until it is given back or kept as a raw picture's original, is a picture made of its own shot, does stop() leave nothing else behind, is every frame answered? | two frames, two sessions, twelve ways through |
| `jpeg_jobs` | Is a job answered once or given up although the manager throws wake-ups away, and is a session's handle lost by aborts only? | two clients, two jobs each, one wake-up left over |
| `streams` | Do reference counts agree with the users, is a buffer lost only by a failing cache operation or VIDIOC_QBUF, is a stream with buffers in the kernel polled, do start and stop return? | two starts; metadata and preview with a buffer each; preview with two, of which the upper layer may hold one |
| `agps` | Do a machine's state and list agree, was the modem told what is so, is every request answered, unless a PENDING machine ignored an answer without a usable APN? | two handles, two interfaces, two requests |
| `hal3_reproc_flush` | *violated*: a flush between the two halves of a reprocess request answers it twice. | |
| `hal3_table` | *violated*: ERROR becomes STARTED again. | |
| `postproc_refused` | *violated*: a job whose channel refused the frame is freed and stays on the queue, for the next output. | |
| `streams_stop` | *violated*: a stream is stopped while the poll thread handles its frame. | |

The bounds let each interesting case happen: two producers suffice for one to be woken by
the other's post; four frames overfill a queue with one unmatched node, twice; two
pictures let what is left of a cancelled one meet the next; three requests exceed what may be
in flight, with one before and one behind the one that matters; two frames let an output
meet the job of the other, and a second session meet what the first left; two starts let a buffer
that is still with a user of the first come back in the second. The `world` of
`HalApi`, `Hal3Requests` and `PostProc` is chosen in Init, so that one run covers all of them. `Word` is 256, which no
number of requests comes near but by wrapping. All but `cmd_thread` switch deadlock checking
off: their behaviours end when the bounded number of frames, operations or requests is used up, and when
the camera is closed, the device lost, or a stream stopped under the poll thread. `cmd_thread` never ends and is checked for deadlock.

**Fairness.** Threads that can run, do (weak fairness of each thread's step): the scheduler is
fair and no thread of the HAL polls a condition. No caller has to call. The camera is assumed to
deliver what it owes while its daemon lives: the last metadata that is due, and every
buffer. SuperbufQueue has no liveness properties and no fairness. In `HalApi` the arrival of
READY_FOR_SNAPSHOT and of prepared metadata is the camera's duty likewise; StopCapture is not
fair, as no caller waits for it. In `PostProc` the encoder and the reprocess channels answer, and
nobody has to take pictures or to stop. `Answered` has four conditions (`Orderly`), each a case the
code does lose: events that are too early, a channel that refuses, a saved longshot whose
buffers run out, since DO_NEXT_JOB is sent before the save thread gives them back
(`HAL/QCameraPostProc.cpp:1251`), and raw pictures whose buffers run out, since each keeps its own. In `JpegJobs` the manager, the component and a call under way go on
(weak fairness), and a client that aborted a job destroys its session in the end (strong fairness), as
both postprocessors do (`HAL/QCameraPostProc.cpp:2892`, `HAL3/QCamera3PostProc.cpp:2005`), for an
aborted job's handle is not given back. In `Streams` the threads go on and the sensor
fills the buffers it has; nobody has to give a buffer back. In `Agps` messages are handled and the
framework answers.

## 4. Proofs

TLAPS proves the following for every value of the constants that the named assumptions of the
modules allow (finite sets of threads, streams and buffers, natural bounds). Every inductive
invariant was first checked with TLC on the instance of the component's run.

*CmdThread.* `TokensMatchNodes`: the nodes on the queue are the tokens of `cmd_sem`, the callers
between put and post, and the token in the worker's hand. The inductive invariant `Inv` adds
to it the types (`TypesHold`), that the queue is active, and that without a thread to join there is
no worker; the counting needs that the set of posting callers is finite and grows or
shrinks by one. `WorkerFindsWork` follows: with a token in hand the queue is not empty. So does
`BehavesAsMailbox`, the safety half of `MailboxSpec`: the box is the queue without the semaphores, a
worker that was woken but has not taken its node still waits, and each action of senders and
worker is one of the mailbox or a stutter. What it adds to `Inv` is that a node taken is the
head, which needs that there is one.
`SyncCallsAreSynchronous` is the action property `SyncMeansDone`, under the assumption `Paired`
that exactly the acknowledged commands are sent synchronously. It needs the stronger
`AnswerInv`: only the owner sends synchronous calls, at most one such call is unfinished, and
an answer is there only when none is. The assumption is needed; section 5 tells of a user that breaks it.

*SuperbufQueue.* First the buffers: `OneFrameAlways` and `BuffersKept`, by `BufInv`: each node is
`NodeOK` (its slots hold its own frame, or, with low priority, younger metadata), `held` is what the
nodes have and what was given, no buffer is in two nodes, and no buffer comes again. They assume
`OneMeta`, that at most one stream of the queue is metadata. Each channel of the HALs adds one
metadata stream (`HAL/QCamera2HWI.cpp:6949`, `7182`, `7273`, `7390`, `7489`), and the HAL3 has one
metadata channel; two of them could meet in the node of another frame.

Then the order: `MatchedNodesFirst` is not inductive by itself. A frame that completes releases the
nodes from the first older unmatched one up to its own, and only because unmatched nodes are sorted are
these exactly the unmatched ones before it. With low priority they are not sorted: a node that waits with
the metadata of a later frame may take an earlier frame and keep its place. But such a node then
lacks a frame that its stream has passed, so it never completes, and its disorder does no harm:
`Dead` is the set of these nodes, `Shape` says that the matched nodes come first and that the others are sorted
but for `Dead` ones, and `TakesFirst` that a node goes out of order only to be in `Dead`, for which `BufInv` is
needed. `Inv` adds that at most `MaxUnmatched + 1` nodes are unmatched and that a queue of one stream has none.
`Invariance` proves it for every action; the lemmas before it say what cutting, inserting and
replacing a node do to `Shape`. `LoopsEnd` (`NoSpin`: the loops of overflow and skip find a matched head) and
`OneRemovalIsEnough` (the removal loop, which goes on from the node it has freed, never goes on) follow.
These assume `OneMeta` for low priority only. `UnmatchedAreSorted` is for normal priority, as the code is.

*JpegJobs.* `TypesHold`, `HandleAlwaysKept` (`HandleKept`) and `ImplementsService`, the safety half of
`ServiceSpec`. `IInv` says where each job is: `LockInv` and `MgrInv` for the call and the manager under
way, `JobInv` that a job is at one place only (ready queue, manager, ongoing queue, callback, or done
with), `QueueInv` that a job on a queue has been started and stands there once, `SessionInv` what the session's
state says of its handle and of the component. With them each step of the calls, the
manager and the callbacks starts, answers or gives up one job, or leaves `status` as it was.

*Hal3Requests.* `IInv` has three parts besides the types: `ThreadInv` (which places the two threads can
be at, and together), `ListInv` (the pending list is in the order of frames; a pending request has a
buffer on `mPendingBuffersMap`; what the camera owes is on the map) and `FreshInv` (a frame number not yet
reached has been neither asked, answered nor returned). `TypesHold` and `BuffersKept` (`BuffersAccounted`) need no more.
`AnsweredOnceAlways` and `FlushAnswersAll` (`FlushLeavesNothing`) rest on notifyErrorForPendingRequests
walking map and list side by side: it answers each request once and empties the list, as each pending frame is on
the map and, behind the oldest pending one, each frame on the map is pending (`KindInv`). The latter fails for
a reprocess request between its input and its output, so both have the hypothesis `OneKind`: a world has live
requests only, or no flush, restart nor death of the daemon; `hal3_reproc_flush` shows what happens
otherwise. `NothingLeftInDeinit` (`NothingAfterDeinit`) has the hypothesis `CleanLoss`: a death of the daemon meets
neither a restart nor a channel that cannot be stopped, each of which lets the other thread go on with
requests after the lists were cleared (`DeinitInv` rules that out). All worlds of the run `hal3` satisfy both.
`LiveCountAlways` (`LiveCount`) is for `Undisturbed` worlds: `LiveInv` equates `mPendingLiveRequest` with the requests
whose metadata is owed, so the byte-wide count of the model never wraps.

*Streams.* `TypesHold` and `BuffersKept` (`BuffersAccounted`), for any streams, buffers and number of starts. The
invariant says first where everybody is: the call under way (`CallInv`), the state of each stream before and
behind it (`StateInv`), the kernel's side (`KernelInv`), the frame in the poll thread's hands
(`PollInv`). Then, for each buffer: who has it and that one user at most is on the way to queue it
(`UserInv`); its reference count (`RefInv`); that it is somewhere or `lost` (`LossInv`), and that a
lost one has no user, is not in the kernel and is not on its way (`LostInv`), for which each step that moves a buffer
must move one that somebody has. The count is exact while a stream is
active only. After a stop it is not below the users, or has wrapped to at least 253, so a late buf_done never
finds 1 and never queues a buffer of a stopped stream; this is why an app that returns a frame late does no harm,
and without it the rest is not inductive. For each stream, `CountInv` bounds `queued_buffer_count`, which is
counted up before the ioctl and down after the kernel's answer: it is between the buffers counted for sure and
those that may be counted, and exact while the stream is filled. This puts the count within the number of
buffers. The constants' assumption says that the buffers are finitely many and a channel has at
least one stream and none twice.

*HalApi.* `TypesHold`, `CaptureStateAlways` (`CaptureState`) and `EachAnsweredOnce` (`OneAnswerEach`), for any
number of callers and any bounds. They rest on lemmas about the state table, proved state by state: an
event leads to a state, gives results and asks for work of the right type (`HandleType`); a picture is taken
or given up exactly when the state goes in or out of the capturing ones (`HandlePicture`); a call is answered
at once and once, or starts the preparation that PREP_SNAPSHOT_DONE will answer (`HandleAnswers`). For this
the branches of each handler exclude each other, as in the source's switch.
Neither property is excepted when the daemon has died: a caller who waits for it in vain still has his one
answer to come. `CaptureState` is inductive given the types, but for one call: LONGSHOT_OFF while a picture is taken sets
PREVIEWING whether longshot is on or not (section 5). The theorem has the hypothesis `OffEndsLongshot`, a rule for
the callers (who switches longshot off during a picture has switched it on before), which all worlds of
the run obey. `OneAnswerEach` counts, for each API, the callers that wait and the places on `api_queue` and
`m_apiResultList`; `AnswersMatch` equates them, and with `PrepareOnce`, that in PREPARE_SNAPSHOT the camera's metadata is
owed or queued exactly once and in no other state at all, is inductive: a caller adds one and one, a handler moves
one from queue to list, `Return` removes a result of its own API. The hypothesis `PlainWorld` leaves out
retro pictures and the calls that some state does not answer (RELEASE_RECORIDNG_FRAME, REG_FACE_IMAGE, and
SEND_COMMAND_RESTART, which only the muxer of two cameras makes). The first two worlds of the run satisfy it; the third,
of retro pictures, stays with TLC: there a SET_PARAMS_RESTART at the wrong time loses the answer (section 5).

*Agps.* `TypesHold`, `ReleasedIsUnused` (`ReleasedWhenUnused`) and `GrantsAlwaysAgree` (`GrantsAgree`), for any
set of handles and any number of requests. The inductive invariant `IInv` adds `RequestsWait`: while
a request of a handle is on the message queue, the modem waits, no machine knows the handle, and no
other request of it is queued.
Without it a request could subscribe a handle that another machine has. The lemmas say what
each handler does to one machine, and what a message more at the end of the queue
leaves as it was.

*PostProc.* `EveryFrameAccounted` (`FramesAccounted`), `StopLeavesNothing` (`StoppedClean`), `TypeCorrect`
(`TypeOK`, which says that no frame leaves and no shot is answered twice) and `PictureIsOfItsShot`
(`PictureOfItsShot`), for any shots and sessions and any worlds, those with early events and with channels
that answer out of order included; all four say nothing of a world with refusals, as the run does.
The first two rest on `IInv`. Its core, `Accounted`, is about holders: a pp job,
a JPEG job, the raw queue and a callback hold frames (`HoldersOf`, `Own`), no two of them the same, and what was
handed over is held or has left (`Fit`). Every step empties some holders, fills at most one and lets go of the rest,
so one lemma, `FitMoves`, serves all of them; what is left for a step is to say who these are. That is where the
other parts come in: a block is on one of the two pp queues or in one callback's hands (`Placed`), a JPEG
job on one queue, with its id from the moment it was submitted (`JpegPlaced`), a job's frames are what its pass
count says (`Memory`), and an output comes once and finds a job while the session lasts, since
m_ongoingPPQ is as long as the outputs to come (`Asked`). `Queues` and `Control` say which queue
is open and which is flushed, and which command is under way, at each point of START and STOP. With them, nothing is held once STOP is
through. `KeptInv` says which frames left without being given back: raw ones that were copied, and between
sessions only those of the source channel, as DELETE drops the outputs. That is `StoppedClean`.

The other two need `PicturesInv`. `Paired` (in worlds with ordered channels) says that the jobs of
m_ongoingPPQ and the outputs to come are of the same frames one by one, and that a job's two frames are of one shot;
without `Asked`, a job more or less on the queue would shift all pairs behind it. For the answers, a shot is `Pending`
while it has a job before the encoder and `Coming` while an encoder job, event or saved picture is
under way, never twice and never both: so it is answered once at most, also when its event
finds no job, or its encoding fails after others were submitted. A raw picture is answered when its frame
leaves (`RawOnce`), which happens once by `Accounted`.

*Lists.* `JpegProofs`, `Hal3Proofs` and `PostProcProofs` begin with the same lemmas about `Without` (a list without
some elements: its members, their order, its length) and with `SetInduction`, induction on the
natural numbers for a set in the place of the library's operator.

`NeverEmptyHanded`, `NoSpin` and `UnmatchedSorted` are proved and have no run of their own: the first
two follow from `Tokens` and `MatchedFirst`, which the runs check. The theorems with a hypothesis
have the form `H /\ Spec => []...`, with `H` about the priority that is chosen once (`low => OneMeta`), the
assignment of streams (`OneMeta`), the worlds (`\A w \in Worlds : OneKind(w)`) or, as an action
property, what the callers do (`OffEndsLongshot`). Those about `PostProc` have theirs in the property itself.

Only model-checked: the answers of `HalApi` in worlds with retro pictures;
`StateTable` of `Hal3Requests`, which is violated; and all liveness, which is out of reach of
the prover with this fairness: the liveness halves of `MailboxSpec` and `ServiceSpec`, `FramesArrive` and
`CallsReturn` of `Streams`, `EveryRequestAnswered` and `ProcessReturns` of `Hal3Requests`, `Answered` of
`PostProc`, and the others of section 3.

## 5. Where code and documentation part

Shown by a run:

* `hal3_reproc_flush` (`HAL3/QCamera3HWI.cpp:10844`): notifyErrorForPendingRequests walks the
  map of buffers and the list of requests side by side. A reprocess request leaves the list
  when its input buffer is done and the map only when its output comes, so between the two
  it is answered again, in the place of another one.
* `hal3_table` (`HAL3/QCamera3HWI.cpp:4400`): the lock is given up for the sensor restart and
  the state then set without another look, so that ERROR may become STARTED.
* `postproc_refused` (`HAL/QCameraPostProc.cpp:3199`): doReprocess() enqueues the job before it asks
  the channel, and when that refuses frees the job but leaves it on the queue: the output of the
  next shot meets freed memory.
* `streams_stop` (`mm_camera_stream.c:1260`): the poll thread deletes the entry of a stream whose last
  buffer it takes; a stop at that moment finds no entry, waits for nothing, and the buffers are
  freed while their frame is handled. A comment (:1263) says that it waits for all updates.

Found while modelling, kept in the models as the code has them, and left without a run:

* A sensor restart answers all pending requests but, unlike flush, keeps
  `mPendingLiveRequest` (`HAL3/QCamera3HWI.cpp:10621`): the request thread may then wait with nothing in flight.
  `LiveCount` and `ProcessReturns` are stated for `Undisturbed` worlds for this reason. A refused request
  is answered but was never counted, so the count may wrap (`:3061`).
* The muxer sends START and STOP asynchronously although its thread acknowledges each
  (`HAL/QCameraMuxer.cpp:1176`, `1321`, `1563`), so that a later synchronous STOP returns on a
  stale answer: `Paired` fails, and with it `SyncMeansDone`.
* The superbuf queue keeps one unmatched super buffer more than `max_unmatched_frames`
  (`mm_camera_channel.c:2904`, `mm_camera_interface.h:370`).
* RELEASE_RECORIDNG_FRAME is not answered in three states
  (`HAL/QCameraStateMachine.cpp:635`, `1056`, `1593`): such a call outside a recording never returns. The callers
  of the runs do not make it.
* A SNAPSHOT_DONE queued for a cancelled picture ends the next one, since API calls are
  taken first (`:73`).
* A STOP of the notifier that is still queued when the next START comes is run after it,
  as both have priority (`HAL/QCamera2HWICallbacks.cpp:3523`): the picture is never reported.
* closeCamera joins a notifier that may wait in processSyncEvt for a state machine thread
  that has ended (`HAL/QCamera2HWI.cpp:2236`).
* LONGSHOT_OFF while a picture is taken sets PREVIEWING although longshot may have been
  switched on only after the picture began (`HAL/QCameraStateMachine.cpp:2108`, `3347`). The callers of
  `hal_api` switch it on before.
* SET_PARAMS_RESTART while a retro picture is taken leads to PIC_TAKING when the preview does not
  start again, a state that ignores READY_FOR_SNAPSHOT (`HAL/QCameraStateMachine.cpp:3255`): the
  caller of TAKE_PICTURE is never answered. The second caller of the world of retro pictures only asks.
* A JPEG event that comes before encodeData() stored the id finds no job
  (`HAL/QCameraPostProc.cpp:1132`): the picture is delivered, and its buffers stay away until stop(). The
  save thread's START is asynchronous likewise, so that a picture may be lost at the start of a longshot.
* An open with an unusable APN is reported as a close, which a PENDING machine ignores
  (`GnssAdapter.cpp:4383`), and agpsOpenResultCb drops any answer without an APN, failures too (`:4847`): the modem
  is never answered. `EveryRequestAnswered` ends at `ignored`.
* "Send internal events to stop indefinite wait on prepare snapshot done event."
  (`HAL/QCameraStateMachine.cpp:1852`): the branch is never reached, as camEvtHandle keeps DAEMON_DIED to itself
  (`HAL/QCamera2HWI.cpp:6048-6056`). When the daemon dies, the caller of PREPARE_SNAPSHOT, or of TAKE_PICTURE with
  retro pictures, waits for ever (`Stranded`).
* "source frame (need to be returned back to kernel after done)" (`HAL/QCameraPostProc.h:52`): a raw frame taken outside
  ZSL is copied and then neither returned nor freed (`HAL/QCameraPostProc.cpp:2670`, `2978`). After as many
  reprocessed raw pictures as the reprocess channel has buffers, none is taken any more; `Orderly` excludes that.
* A failing clean_invalidate_buf, invalidate_buf or VIDIOC_QBUF loses the buffer until the stream is stopped and
  started (`mm_camera_stream.c:1569`, `1771`, `1802`); nobody is told, and a stream that has lost all its buffers
  is polled no more and delivers nothing.
* job_done gives the handle back before it reads which output buffer to return
  (`mm_jpeg.c:3286`), which burst mode, off by default and not modelled, would notice.

## 6. What is not modelled, and the plan

Not modelled at all: the tables of parameters and static metadata, memory
allocators, thin wrappers (performance locks, flash, display), the OMX core, build files,
configuration and policies: no state of their own, or data only. These are most of the tree: the
parameters of the HAL1 alone are some 16,000 lines.

Not modelled yet, in the order of what they would add:

1. The channel's own state machine and its dispatch thread, which would join `Streams` with
   `SuperbufQueue`; the handshake of the poll thread with its senders; the frame
   sync of two cameras.
2. The HAL1's deferred work; the HAL3's postprocessor, built like the HAL1's, which owes the buffers
   that `Hal3Requests` waits for.
3. The GNSS adapter's sessions, the timers and the message queue of the GPS; the
   fingerprint service.
4. Proofs: `OneAnswerEach` of `HalApi` for retro pictures, whose TAKE_PICTURE is answered by
   READY_FOR_SNAPSHOT.

Abstract specifications worth stating: a stream as an owner of buffers that are with the kernel,
a queue or a client; the HAL3 as a server that answers each request once; the postprocessor
as a pipeline that keeps the order of its jobs.
