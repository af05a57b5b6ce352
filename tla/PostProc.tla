------------------------------- MODULE PostProc ------------------------------
(***************************************************************************)
(* QCameraPostProcessor (camera/QCamera2/HAL/QCameraPostProc.cpp): what    *)
(* happens to a picture between the sensor's frame and the application.    *)
(*                                                                         *)
(* Six queues carry it.  processData puts a frame on m_inputPPQ (when it   *)
(* is to be reprocessed), m_inputRawQ or m_inputJpegQ; dataProcessRoutine, *)
(* the thread D below, asks the reprocess channels and the JPEG encoder;   *)
(* jobs wait for them on m_ongoingPPQ and m_ongoingJpegQ; processPPData,   *)
(* on a thread of each reprocess channel, takes an output to the next pass *)
(* or to the encoder; processJpegEvt, on the thread of the state machine,  *)
(* delivers the picture, or leaves that to dataSaveRoutine.  start() and   *)
(* stop() run on the state machine's thread and wait for D.                *)
(*                                                                         *)
(* A pp job is a block of memory, so that a job freed while it is still on *)
(* a queue can be met again, or its block given to the next job.  The      *)
(* command boxes of the two threads have the meaning CmdMailbox gives them.*)
(* Extra jobs of multi-frame features and offline copies are left out, and *)
(* so are raw pictures that the HAL takes for itself (m_bIntRawEvtPending) *)
(* and those of a client that wants no CAMERA_MSG_COMPRESSED_IMAGE, whose  *)
(* frames the code keeps as it keeps those it copied (DRaw).               *)
(***************************************************************************)
EXTENDS CamQueue, Lists, FiniteSets

CONSTANTS
  Worlds,       \* the configurations: [passes, raw, zsl, save, faults, bufs, early, ordered]
  MaxShots,     \* bound: frames the source channel delivers
  MaxSessions   \* bound: calls of start()

Faults == {"encode", "raw", "reprocess"}

\* passes: reprocess passes of a frame, a channel each; raw: NV16 or NV21
\* pictures; zsl: isZSLMode(); save: longshot with the save thread; faults: the
\* calls that may fail; bufs: buffers of the first reprocess channel; early: a
\* JPEG event may be handled before start_job's caller stored the id and before
\* the save thread did the START it was sent; ordered: the channels answer in the
\* order they were asked.
World == [passes : 0 .. 2, raw : BOOLEAN, zsl : BOOLEAN, save : BOOLEAN, faults : SUBSET Faults,
          bufs : Nat, early : BOOLEAN, ordered : BOOLEAN]

ASSUME WorldsAssumption ==
  Worlds \subseteq World /\ MaxShots \in Nat \ {0} /\ MaxSessions \in Nat

Shots    == 1 .. MaxShots
Channels == 0 .. 1
MaxPass  == 3   \* bound: outputs of a frame after one another; the passes need
                \* no more, but out of order an output may meet the job of another
Frame    == [shot : Shots, pass : 0 .. MaxPass]   \* pass 0: from the source channel
NoFrame  == [shot |-> 0, pass |-> 0]        \* NULL
Source(s) == [shot |-> s, pass |-> 0]
Blocks   == Shots                           \* memory for pp jobs
PPJob    == [src : Frame \cup {NoFrame}, reproc : Frame \cup {NoFrame},
             count : 0 .. 3, chan : Channels]
JpegJob  == [src : Frame, reproc : Frame \cup {NoFrame}, id : Nat]
JpegEvt  == [id : Nat \ {0}, shot : Shots, ok : BOOLEAN]
NoJob    == [src |-> NoFrame, reproc |-> NoFrame, count |-> 0, chan |-> 0]
Idle     == [at |-> "idle", job |-> 0, frame |-> NoFrame]

VARIABLES
  world,
  q,          \* the queues
  mem, alloc, \* the blocks of pp jobs, and which are allocated
  isActive,   \* dataProcessRoutine's is_active
  dBox, dpc,  \* its commands, and where it is
  hand,       \* the pp job it is about to submit
  flushing,   \* the queues STOP has still to flush
  sBox, saveActive,   \* dataSaveRoutine's commands and is_active
  sm,         \* the thread of the state machine
  running,    \* between start() and stop(): a state that takes pictures
  sessions,
  src,        \* the source channel's callback
  cb,         \* the reprocess channels' callbacks
  hw,         \* frames being reprocessed: [chan, out]
  encoder,    \* jobs being encoded: [id, shot]
  nextId,
  evts,       \* JPEG events the state machine has still to handle
  seen,       \* frames handed to the postprocessor
  done,       \* how often a frame left the postprocessor: it was given back or ...
  kept,       \* ... is a raw frame that nobody gives back
  orphans,    \* outputs of reprocess that found no job
  answers     \* pictures and errors reported for a shot

queueVars == <<q, mem, alloc>>
dVars     == <<isActive, dpc, hand, flushing>>
saveVars  == <<sBox, saveActive>>
smVars    == <<sm, running, sessions>>
jpegVars  == <<encoder, nextId, evts>>
frameVars == <<seen, done, kept, orphans>>
vars == <<world, queueVars, dVars, dBox, saveVars, smVars, src, cb, hw, jpegVars,
          frameVars, answers>>

PPQueues == {"inputPP", "ongoingPP"}
JpegQueues == {"inputJpeg", "ongoingJpeg"}
QueueNames == PPQueues \cup JpegQueues \cup {"inputRaw", "inputSave"}

\* doReprocess() leaves the job that it frees, when a channel refuses its frame, on
\* m_ongoingPPQ, and what takes it from there may meet the next job in its block.
\* What the postprocessor promises is said of the worlds in which no channel does so.
NoRefusal == "reprocess" \notin world.faults

\* With the types: no frame is given back twice and no shot answered twice.
TypeOK ==
  /\ world \in Worlds
  /\ NoRefusal =>
       /\ \A n \in PPQueues : q[n] \in QueueOf(Blocks)
       /\ \A n \in JpegQueues : q[n] \in QueueOf(JpegJob)
       /\ q["inputRaw"] \in QueueOf(Frame) /\ q["inputSave"] \in QueueOf(JpegEvt)
       /\ mem \in [Blocks -> PPJob] /\ alloc \subseteq Blocks
       /\ isActive \in BOOLEAN /\ saveActive \in BOOLEAN /\ running \in BOOLEAN
       /\ dpc \in {"idle", "save", "jpeg", "encode", "store", "raw", "reproc", "ask", "flush"}
       /\ hand \in Blocks \cup {0}
       /\ sm \in {"idle", "start", "stop", "delete"} /\ sessions \in 0 .. MaxSessions
       /\ src \in {"idle", "send"}
       /\ \A c \in Channels : cb[c].at \in {"idle", "held", "send"}
       /\ \A e \in encoder : e.shot \in Shots /\ e.id < nextId
       /\ seen \subseteq Frame /\ orphans \subseteq seen /\ kept \subseteq seen
       /\ done \in [Frame -> 0 .. 1]
       /\ answers \in [Shots -> 0 .. 1]

Init ==
  /\ world \in Worlds
  /\ q = [n \in QueueNames |-> NewQueue]
  /\ mem = [a \in Blocks |-> NoJob] /\ alloc = {}
  /\ isActive = FALSE /\ dBox = << >> /\ dpc = "idle" /\ hand = 0 /\ flushing = << >>
  /\ sBox = << >> /\ saveActive = FALSE
  /\ sm = "idle" /\ running = FALSE /\ sessions = 0
  /\ src = "idle" /\ cb = [c \in Channels |-> Idle] /\ hw = << >>
  /\ encoder = {} /\ nextId = 1 /\ evts = << >>
  /\ seen = {} /\ done = [f \in Frame |-> 0] /\ kept = {} /\ orphans = {}
  /\ answers = [s \in Shots |-> 0]

-----------------------------------------------------------------------------
(* Frames and jobs.                                                        *)

Items(n) == {q[n].nodes[i] : i \in 1 .. Len(q[n].nodes)}

\* The frames of S leave: releaseSuperBuf() and free(), or, for those that DRaw keeps,
\* neither.
DoneWith(S) == [f \in Frame |-> IF f \in S THEN done[f] + 1 ELSE done[f]]

\* releaseOngoingPPData(): both frames of the job, once when they are the same.
PPFrames(a) == {mem[a].src, mem[a].reproc} \ {NoFrame}

\* releaseJpegJobData().
JpegFrames(j) == {j.src, j.reproc} \ {NoFrame}

\* What flush() releases of a queue.
FramesOn(n) ==
  CASE n \in PPQueues   -> UNION {PPFrames(a) : a \in Items(n)}
    [] n \in JpegQueues -> UNION {JpegFrames(j) : j \in Items(n)}
    [] n = "inputRaw"   -> Items(n)
    [] OTHER            -> {}

\* free() of pp jobs: their pointers were set to NULL on release.
Cleared(S) == [a \in Blocks |-> IF a \in S THEN NoJob ELSE mem[a]]
BlocksOn(n) == IF n \in PPQueues THEN Items(n) ELSE {}

NewJpegJob(f, reproc) == [src |-> f, reproc |-> reproc, id |-> 0]

-----------------------------------------------------------------------------
(* The source channel's callback.                                          *)

\* processData() up to its sendCmd: a queue that is not active refuses and the
\* frame goes back.
ProcessData(s) ==
  LET f == Source(s)
      Put(n, d) ==
        IF q[n].active
        THEN /\ q' = [q EXCEPT ![n] = Enqueue(@, d)]
             /\ src' = "send"
             /\ done' = done
        ELSE done' = DoneWith({f}) /\ UNCHANGED <<q, src>>
  IN /\ src = "idle"
     /\ f \notin seen /\ \A t \in Shots : t < s => Source(t) \in seen
     /\ seen' = seen \cup {f}
     /\ \/ /\ world.passes > 0
           /\ \E a \in Blocks \ alloc :
                /\ Put("inputPP", a)
                /\ mem' = IF q["inputPP"].active
                          THEN [mem EXCEPT ![a] = [NoJob EXCEPT !.src = f, !.reproc = f]]
                          ELSE mem
                /\ alloc' = IF q["inputPP"].active THEN alloc \cup {a} ELSE alloc
        \/ /\ world.passes = 0
           /\ IF world.raw THEN Put("inputRaw", f)
                           ELSE Put("inputJpeg", NewJpegJob(f, NoFrame))
           /\ UNCHANGED <<mem, alloc>>
     /\ UNCHANGED <<world, dVars, dBox, saveVars, smVars, cb, hw, jpegVars, orphans, kept, answers>>

\* Its sendCmd(DO_NEXT_JOB).
SourceSends ==
  /\ src = "send"
  /\ src' = "idle"
  /\ dBox' = Append(dBox, "next")
  /\ UNCHANGED <<world, queueVars, dVars, saveVars, smVars, cb, hw, jpegVars, frameVars, answers>>

-----------------------------------------------------------------------------
(* The state machine's thread.                                             *)

\* start(): new reprocess channels, then a synchronous START.
Start ==
  /\ sm = "idle" /\ ~running /\ sessions < MaxSessions
  /\ sm' = "start"
  /\ sessions' = sessions + 1
  /\ dBox' = Append(dBox, "start")
  /\ UNCHANGED <<world, queueVars, dVars, saveVars, running, src, cb, hw, jpegVars, frameVars, answers>>

\* stop(): a synchronous STOP with priority.
Stop ==
  /\ sm = "idle" /\ running
  /\ sm' = "stop"
  /\ dBox' = <<"stop">> \o dBox
  /\ UNCHANGED <<world, queueVars, dVars, saveVars, running, sessions, src, cb, hw, jpegVars,
                 frameVars, answers>>

\* stop(), the rest: stopping a reprocess channel waits for its callback and
\* drops what it had still to do; its buffers go with it, the kept ones too.
DeleteChannels ==
  /\ sm = "delete" /\ \A c \in Channels : cb[c].at = "idle"
  /\ sm' = "idle" /\ running' = FALSE
  /\ hw' = << >>
  /\ orphans' = {} /\ done' = DoneWith(orphans) /\ kept' = {f \in kept : f.pass = 0}
  /\ UNCHANGED <<world, queueVars, dVars, dBox, saveVars, sessions, src, cb, jpegVars, seen, answers>>

\* m_ongoingJpegQ.flushNodes(matchJobId, id).
Matching(id) == {j \in Items("ongoingJpeg") : j.id = id}
Unmatched(id) ==
  [q["ongoingJpeg"] EXCEPT !.nodes = Without(@, Matching(id))]

\* Is the first event too early for the threads it concerns?  Encoding takes far
\* longer than what D and the save thread have to do, but nothing makes sure.
TooEarly(e) ==
  \/ dpc = "store" /\ e.id = nextId - 1
  \/ \E i \in 1 .. Len(sBox) : sBox[i] = "start"

\* Variant: no DO_NEXT_JOB after the event.
JpegEvtNoWakeUp ==
  LET e == Head(evts) IN
  /\ sm = "idle" /\ evts # << >>
  /\ TooEarly(e) => world.early
  /\ evts' = Tail(evts)
  /\ IF running
     THEN /\ q' = [q EXCEPT !["ongoingJpeg"] = Unmatched(e.id)]
          /\ done' = DoneWith(UNION {JpegFrames(j) : j \in Matching(e.id)})
          /\ answers' = [answers EXCEPT ![e.shot] = @ + 1]
     ELSE UNCHANGED <<q, done, answers>>
  /\ UNCHANGED <<world, mem, alloc, dVars, dBox, saveVars, smVars, src, cb, hw, encoder, nextId,
                 seen, orphans, kept>>

\* processJpegEvt(): the state machine drops the event unless a picture is being
\* taken.  The job is released and the picture or an error reported, both left
\* to the save thread in a saved longshot; then D is told twice over.
ProcessJpegEvt ==
  LET e == Head(evts)
      more == IF IsEmpty(q["inputPP"]) THEN << >> ELSE <<"next">>
  IN
  /\ sm = "idle" /\ evts # << >>
  /\ TooEarly(e) => world.early
  /\ evts' = Tail(evts)
  /\ \/ /\ running /\ ~world.save
        /\ q' = [q EXCEPT !["ongoingJpeg"] = Unmatched(e.id)]
        /\ done' = DoneWith(UNION {JpegFrames(j) : j \in Matching(e.id)})
        /\ answers' = [answers EXCEPT ![e.shot] = @ + 1]
        /\ dBox' = (dBox \o more) \o <<"next">>
        /\ sBox' = sBox
     \/ /\ running /\ world.save
        /\ IF q["inputSave"].active
           THEN /\ q' = [q EXCEPT !["inputSave"] = Enqueue(@, e)]
                /\ sBox' = Append(sBox, "next")
                /\ dBox' = Append(dBox, "next")
           ELSE UNCHANGED <<q, sBox, dBox>>
        /\ UNCHANGED <<done, answers>>
     \/ ~running /\ UNCHANGED <<q, done, answers, dBox, sBox>>
  /\ UNCHANGED <<world, mem, alloc, dVars, saveActive, smVars, src, cb, hw, encoder, nextId,
                 seen, orphans, kept>>

-----------------------------------------------------------------------------
(* The encoder: mm_jpeg calls back once for a job, unless it is aborted.   *)

JpegCallback ==
  \E e \in encoder, ok \in BOOLEAN :
    /\ encoder' = encoder \ {e}
    /\ evts' = Append(evts, [id |-> e.id, shot |-> e.shot, ok |-> ok])
    /\ UNCHANGED <<world, queueVars, dVars, dBox, saveVars, smVars, src, cb, hw, nextId,
                   frameVars, answers>>

-----------------------------------------------------------------------------
(* dataSaveRoutine.                                                        *)

SaveUnchanged == UNCHANGED <<world, mem, alloc, isActive, dBox, hand, smVars, src, cb, hw,
                             jpegVars, seen, orphans, kept>>

SaveStart ==
  /\ sBox # << >> /\ Head(sBox) = "start"
  /\ sBox' = Tail(sBox)
  /\ saveActive' = TRUE
  /\ q' = [q EXCEPT !["inputSave"] = InitQueue(@)]
  /\ SaveUnchanged /\ UNCHANGED <<dpc, flushing, done, answers>>

SaveStop ==
  /\ sBox # << >> /\ Head(sBox) = "stop"
  /\ sBox' = Tail(sBox)
  /\ saveActive' = FALSE
  /\ q' = [q EXCEPT !["inputSave"] = Flush(@)]
  /\ dpc' = "flush" /\ flushing' = <<"ongoingJpeg", "ongoingPP", "inputJpeg", "inputPP", "inputRaw">>
  /\ SaveUnchanged /\ UNCHANGED <<done, answers>>

\* DO_NEXT_JOB: the job is released, the file written and reported.
SaveNext ==
  /\ sBox # << >> /\ Head(sBox) = "next"
  /\ sBox' = Tail(sBox)
  /\ IF CanDequeue(q["inputSave"])
     THEN LET e == First(q["inputSave"]) IN
          /\ q' = [q EXCEPT !["inputSave"] = DequeueHead(@), !["ongoingJpeg"] = Unmatched(e.id)]
          /\ done' = DoneWith(UNION {JpegFrames(j) : j \in Matching(e.id)})
          /\ answers' = IF saveActive THEN [answers EXCEPT ![e.shot] = @ + 1] ELSE answers
     ELSE UNCHANGED <<q, done, answers>>
  /\ SaveUnchanged /\ UNCHANGED <<saveActive, dpc, flushing>>

SaveThread == SaveStart \/ SaveStop \/ SaveNext

-----------------------------------------------------------------------------
(* dataProcessRoutine.                                                     *)

\* What no step of D but the handling of STOP touches.
DUnchanged == UNCHANGED <<world, saveActive, running, sessions, src, cb, evts, seen, orphans>>

Takes(cmd) ==
  /\ dpc = "idle" /\ dBox # << >> /\ Head(dBox) = cmd
  /\ dBox' = Tail(dBox)

\* START: active, with queues that accept again; the save thread is told.
DStart ==
  /\ Takes("start")
  /\ isActive' = TRUE
  /\ q' = [n \in QueueNames |-> IF n \in {"ongoingPP", "inputJpeg", "inputPP", "inputRaw"}
                                THEN InitQueue(q[n]) ELSE q[n]]
  /\ sBox' = Append(sBox, "start")
  /\ sm' = "idle" /\ running' = TRUE
  /\ UNCHANGED <<world, mem, alloc, dpc, hand, flushing, saveActive, sessions, src, cb, hw, jpegVars,
                 frameVars, answers>>

\* STOP: first the save thread stops, synchronously.
DStop ==
  /\ Takes("stop")
  /\ isActive' = FALSE
  /\ sBox' = <<"stop">> \o sBox
  /\ dpc' = "save"
  /\ DUnchanged /\ UNCHANGED <<kept, queueVars, hand, flushing, sm, hw, encoder, nextId, done, answers>>

\* Variant: the raw frames are forgotten.
DFlushNotRaw ==
  /\ dpc = "flush" /\ flushing # << >>
  /\ LET n == Head(flushing) IN
       /\ done' = IF n = "inputRaw" THEN done ELSE DoneWith(FramesOn(n))
       /\ mem' = Cleared(BlocksOn(n)) /\ alloc' = alloc \ BlocksOn(n)
       /\ q' = [q EXCEPT ![n] = IF n = "inputRaw" THEN @
                                ELSE IF n = "ongoingJpeg" THEN NewQueue ELSE Flush(@)]
       /\ encoder' = IF n = "ongoingJpeg" THEN {} ELSE encoder
  /\ flushing' = Tail(flushing)
  /\ DUnchanged /\ UNCHANGED <<kept, isActive, dpc, hand, dBox, sBox, sm, hw, nextId, answers>>

\* ... then every JPEG job is aborted and released and the session destroyed,
\* which leaves m_ongoingJpegQ active; the other queues are flushed one by one.
DFlush ==
  /\ dpc = "flush" /\ flushing # << >>
  /\ LET n == Head(flushing) IN
       /\ done' = IF q[n].active THEN DoneWith(FramesOn(n)) ELSE done
       /\ mem' = Cleared(BlocksOn(n)) /\ alloc' = alloc \ BlocksOn(n)
       /\ q' = [q EXCEPT ![n] = IF n = "ongoingJpeg" THEN NewQueue ELSE Flush(@)]
       /\ encoder' = IF n = "ongoingJpeg" THEN {} ELSE encoder
  /\ flushing' = Tail(flushing)
  /\ DUnchanged /\ UNCHANGED <<kept, isActive, dpc, hand, dBox, sBox, sm, hw, nextId, answers>>

\* ... and stop() is answered.
DStopped ==
  /\ dpc = "flush" /\ flushing = << >>
  /\ dpc' = "idle" /\ sm' = "delete"
  /\ DUnchanged /\ UNCHANGED <<kept, queueVars, isActive, hand, flushing, dBox, sBox, hw, encoder, nextId,
                               done, answers>>

\* DO_NEXT_JOB while not active: a JPEG job and a raw frame are dropped, and
\* everything that waits for reprocess.
DDrop ==
  LET Dropped(n) == IF CanDequeue(q[n]) THEN {First(q[n])} ELSE {}
      Rest(n) == IF CanDequeue(q[n]) THEN DequeueHead(q[n]) ELSE q[n]
      gone == IF q["inputPP"].active THEN Items("inputPP") ELSE {}
  IN
  /\ Takes("next") /\ ~isActive
  /\ q' = [q EXCEPT !["inputJpeg"] = Rest("inputJpeg"), !["inputRaw"] = Rest("inputRaw"),
                    !["inputPP"] = Flush(@)]
  /\ done' = DoneWith((UNION {JpegFrames(j) : j \in Dropped("inputJpeg")})
                    \cup Dropped("inputRaw") \cup (UNION {PPFrames(a) : a \in gone}))
  /\ mem' = Cleared(gone) /\ alloc' = alloc \ gone
  /\ DUnchanged /\ UNCHANGED <<kept, dVars, sBox, sm, hw, encoder, nextId, answers>>

\* DO_NEXT_JOB while active: the next JPEG job becomes an ongoing one ...
DJpeg ==
  /\ Takes("next") /\ isActive
  /\ IF CanDequeue(q["inputJpeg"])
     THEN /\ q' = [q EXCEPT !["inputJpeg"] = DequeueHead(@),
                            !["ongoingJpeg"] = Enqueue(@, First(q["inputJpeg"]))]
          /\ dpc' = "encode"
     ELSE dpc' = "raw" /\ q' = q
  /\ DUnchanged /\ UNCHANGED <<kept, mem, alloc, isActive, hand, flushing, sBox, sm, hw, encoder, nextId,
                               done, answers>>

ShotOf(j) == IF j.reproc = NoFrame THEN j.src.shot ELSE j.reproc.shot

\* Variant: the same id for every job.
DEncodeSameId ==
  /\ dpc = "encode"
  /\ encoder' = encoder \cup {[id |-> nextId, shot |-> ShotOf(Last(q["ongoingJpeg"]))]}
  /\ nextId' = nextId
  /\ dpc' = "store"
  /\ DUnchanged /\ UNCHANGED <<kept, queueVars, isActive, hand, flushing, dBox, sBox, sm, hw, done, answers>>

\* ... encodeData() up to start_job() ...
DEncode ==
  /\ dpc = "encode"
  /\ encoder' = encoder \cup {[id |-> nextId, shot |-> ShotOf(Last(q["ongoingJpeg"]))]}
  /\ nextId' = nextId + 1
  /\ dpc' = "store"
  /\ DUnchanged /\ UNCHANGED <<kept, queueVars, isActive, hand, flushing, dBox, sBox, sm, hw, done, answers>>

\* ... whose failure takes the last of the ongoing jobs back and is reported ...
DEncodeFails ==
  LET j == Last(q["ongoingJpeg"]) IN
  /\ dpc = "encode" /\ "encode" \in world.faults
  /\ q' = [q EXCEPT !["ongoingJpeg"] = DequeueTail(@)]
  /\ done' = DoneWith(JpegFrames(j))
  /\ answers' = [answers EXCEPT ![ShotOf(j)] = @ + 1]
  /\ dpc' = "raw"
  /\ DUnchanged /\ UNCHANGED <<kept, mem, alloc, isActive, hand, flushing, dBox, sBox, sm, hw, encoder, nextId>>

\* ... and the id is remembered: only D adds to m_ongoingJpegQ and the callback
\* finds no job without id, so the job is still the last one.
DStoreId ==
  /\ dpc = "store"
  /\ q' = [q EXCEPT !["ongoingJpeg"].nodes[Len(q["ongoingJpeg"].nodes)].id = nextId - 1]
  /\ dpc' = "raw"
  /\ DUnchanged /\ UNCHANGED <<kept, mem, alloc, isActive, hand, flushing, dBox, sBox, sm, hw, encoder,
                               nextId, done, answers>>

\* zslChannelUsed: the picture shares the buffer of a ZSL frame, which is given back
\* when the application released it.  In ZSL mode that is what the code takes any frame
\* for that is not of the first reprocess channel; of any other raw frame the picture
\* is a copy.
ZslChannelUsed(f) == world.zsl /\ f.pass # 1

\* processRawImageImpl() of the next raw frame, which is given back with the picture,
\* with an error, or, copied, not at all: only a failure has D release it.
DRaw ==
  /\ dpc = "raw"
  /\ IF CanDequeue(q["inputRaw"])
     THEN LET f == First(q["inputRaw"]) IN
          /\ q' = [q EXCEPT !["inputRaw"] = DequeueHead(@)]
          /\ answers' = [answers EXCEPT ![f.shot] = @ + 1]
          /\ done' = DoneWith({f})
          /\ \/ kept' = IF ZslChannelUsed(f) THEN kept ELSE kept \cup {f}
             \/ "raw" \in world.faults /\ kept' = kept
     ELSE UNCHANGED <<q, done, kept, answers>>
  /\ dpc' = "reproc"
  /\ DUnchanged /\ UNCHANGED <<mem, alloc, isActive, hand, flushing, dBox, sBox, sm, hw, encoder, nextId>>

\* validatePostProcess(): the buffers of the first channel that are not held by
\* anybody, or kept, must outnumber the ongoing jobs.  A frame that comes from a reprocess
\* channel itself is not limited.
Held == {f \in seen : f.pass = 1 /\ (done[f] = 0 \/ f \in kept) /\ f \notin orphans}
ValidPostProcess(f) ==
  f.pass = 0 => Len(q["ongoingPP"].nodes) < world.bufs - Cardinality(Held)

\* doReprocess(): the next pp job becomes an ongoing one before its channel is
\* asked; two steps, an output of another job may come between them.
DReproc ==
  /\ dpc = "reproc"
  /\ IF /\ CanDequeue(q["inputPP"])
        /\ ValidPostProcess(mem[First(q["inputPP"])].src)
     THEN LET a == First(q["inputPP"]) IN
          /\ q' = [q EXCEPT !["inputPP"] = DequeueHead(@), !["ongoingPP"] = Enqueue(@, a)]
          /\ mem' = [mem EXCEPT ![a].count = @ + 1]
          /\ hand' = a /\ dpc' = "ask"
     ELSE dpc' = "idle" /\ UNCHANGED <<q, mem, hand>>
  /\ DUnchanged /\ UNCHANGED <<kept, alloc, isActive, flushing, dBox, sBox, sm, hw, encoder, nextId,
                               done, answers>>

DAsk ==
  /\ dpc = "ask" /\ mem[hand].src.pass < MaxPass
  /\ LET f == mem[hand].src IN
       hw' = Append(hw, [chan |-> mem[hand].chan, out |-> [f EXCEPT !.pass = @ + 1]])
  /\ dpc' = "idle" /\ hand' = 0
  /\ DUnchanged /\ UNCHANGED <<kept, queueVars, isActive, flushing, dBox, sBox, sm, encoder, nextId,
                               done, answers>>

\* The channel refuses: the job is released, freed and an error reported; its
\* address stays on m_ongoingPPQ.
DAskFails ==
  /\ dpc = "ask" /\ "reprocess" \in world.faults
  /\ done' = DoneWith(PPFrames(hand))
  /\ answers' = [answers EXCEPT ![mem[hand].reproc.shot] = @ + 1]
  /\ mem' = Cleared({hand}) /\ alloc' = alloc \ {hand}
  /\ dpc' = "idle" /\ hand' = 0
  /\ DUnchanged /\ UNCHANGED <<kept, q, isActive, flushing, dBox, sBox, sm, hw, encoder, nextId>>

DataProc ==
  \/ DStart \/ DStop \/ DFlush \/ DStopped \/ DDrop
  \/ DJpeg \/ DEncode \/ DEncodeFails \/ DStoreId \/ DRaw
  \/ DReproc \/ DAsk \/ DAskFails

-----------------------------------------------------------------------------
(* The reprocess channels' callbacks.                                      *)

CbUnchanged == UNCHANGED <<world, dVars, saveVars, smVars, src, jpegVars, kept, answers>>

RemoveAt(s, i) == SubSeq(s, 1, i - 1) \o SubSeq(s, i + 1, Len(s))

\* The next output of channel c.
IsNext(i, c) ==
  /\ hw[i].chan = c
  /\ \A k \in 1 .. i - 1 : ~world.ordered /\ hw[k].chan # c

\* Variant: the last of the ongoing jobs is taken.
CbTakeLast(c, i) ==
  LET f == hw[i].out IN
  /\ cb[c].at = "idle" /\ IsNext(i, c)
  /\ hw' = RemoveAt(hw, i)
  /\ seen' = seen \cup {f}
  /\ IF CanDequeue(q["ongoingPP"]) /\ PPFrames(Last(q["ongoingPP"])) # {}
     THEN /\ cb' = [cb EXCEPT ![c] = [at |-> "held", job |-> Last(q["ongoingPP"]), frame |-> f]]
          /\ orphans' = orphans
     ELSE orphans' = orphans \cup {f} /\ cb' = cb
  /\ q' = IF CanDequeue(q["ongoingPP"]) THEN [q EXCEPT !["ongoingPP"] = DequeueTail(@)] ELSE q
  /\ CbUnchanged /\ UNCHANGED <<mem, alloc, dBox, done>>

\* processPPData(), first part: the output goes with the first ongoing job; with
\* none, or one whose frames are gone, the call returns and nobody has the output.
CbTake(c, i) ==
  LET f == hw[i].out IN
  /\ cb[c].at = "idle" /\ IsNext(i, c)
  /\ hw' = RemoveAt(hw, i)
  /\ seen' = seen \cup {f}
  /\ IF CanDequeue(q["ongoingPP"]) /\ PPFrames(First(q["ongoingPP"])) # {}
     THEN /\ cb' = [cb EXCEPT ![c] = [at |-> "held", job |-> First(q["ongoingPP"]), frame |-> f]]
          /\ orphans' = orphans
     ELSE orphans' = orphans \cup {f} /\ cb' = cb
  /\ q' = IF CanDequeue(q["ongoingPP"]) THEN [q EXCEPT !["ongoingPP"] = DequeueHead(@)] ELSE q
  /\ CbUnchanged /\ UNCHANGED <<mem, alloc, dBox, done>>

\* Hand d over to queue n; when it refuses, free the block.
Pass(c, n, d, m) ==
  IF q[n].active
  THEN /\ q' = [q EXCEPT ![n] = Enqueue(@, d)]
       /\ cb' = [cb EXCEPT ![c] = [Idle EXCEPT !.at = "send"]]
       /\ mem' = m
  ELSE /\ q' = q
       /\ cb' = [cb EXCEPT ![c] = Idle]
       /\ mem' = [m EXCEPT ![cb[c].job] = NoJob]

\* The rest of processPPData() up to its sendCmd, for raw pictures: the job is
\* released and the output queued as a raw frame.
CbRaw(c) ==
  LET a == cb[c].job  f == cb[c].frame IN
  /\ cb[c].at = "held" /\ world.raw
  /\ Pass(c, "inputRaw", f, Cleared({a}))
  /\ done' = DoneWith(PPFrames(a) \cup (IF q["inputRaw"].active THEN {} ELSE {f}))
  /\ alloc' = alloc \ {a}
  /\ CbUnchanged /\ UNCHANGED <<hw, dBox, seen, orphans>>

\* ... when another pass is needed: the output is the job's new input.
CbAgain(c) ==
  LET a == cb[c].job  f == cb[c].frame
      job == [mem[a] EXCEPT !.src = f, !.chan = 1]
      spent == IF mem[a].count > 1 THEN {mem[a].src} ELSE {}
      refused == IF q["inputPP"].active THEN {} ELSE {f, job.reproc}
  IN
  /\ cb[c].at = "held" /\ ~world.raw /\ mem[a].count < world.passes
  /\ Pass(c, "inputPP", a, [mem EXCEPT ![a] = job])
  /\ done' = DoneWith(spent \cup refused)
  /\ alloc' = IF q["inputPP"].active THEN alloc ELSE alloc \ {a}
  /\ CbUnchanged /\ UNCHANGED <<hw, dBox, seen, orphans>>

\* Variant: the input of the second pass is forgotten.
CbDoneKeepsInput(c) ==
  LET a == cb[c].job
      j == NewJpegJob(cb[c].frame, mem[a].reproc)
      refused == IF q["inputJpeg"].active THEN {} ELSE JpegFrames(j)
  IN
  /\ cb[c].at = "held" /\ ~world.raw /\ mem[a].count >= world.passes
  /\ Pass(c, "inputJpeg", j, Cleared({a}))
  /\ done' = DoneWith(refused)
  /\ alloc' = alloc \ {a}
  /\ CbUnchanged /\ UNCHANGED <<hw, dBox, seen, orphans>>

\* ... and when not: the input of a second pass goes back, output and source
\* frame become a JPEG job, and the pp job is freed.
CbDone(c) ==
  LET a == cb[c].job
      j == NewJpegJob(cb[c].frame, mem[a].reproc)
      spent == IF mem[a].count > 1 THEN {mem[a].src} ELSE {}
      refused == IF q["inputJpeg"].active THEN {} ELSE JpegFrames(j)
  IN
  /\ cb[c].at = "held" /\ ~world.raw /\ mem[a].count >= world.passes
  /\ Pass(c, "inputJpeg", j, Cleared({a}))
  /\ done' = DoneWith(spent \cup refused)
  /\ alloc' = alloc \ {a}
  /\ CbUnchanged /\ UNCHANGED <<hw, dBox, seen, orphans>>

CbSend(c) ==
  /\ cb[c].at = "send"
  /\ cb' = [cb EXCEPT ![c] = Idle]
  /\ dBox' = Append(dBox, "next")
  /\ CbUnchanged /\ UNCHANGED <<queueVars, hw, frameVars>>

Callback(c) ==
  \/ \E i \in 1 .. Len(hw) : CbTake(c, i)
  \/ CbRaw(c) \/ CbAgain(c) \/ CbDone(c) \/ CbSend(c)

-----------------------------------------------------------------------------
Next ==
  \/ \E s \in Shots : ProcessData(s)
  \/ SourceSends
  \/ Start \/ Stop \/ DeleteChannels \/ ProcessJpegEvt
  \/ JpegCallback
  \/ SaveThread
  \/ DataProc
  \/ \E c \in Channels : Callback(c)

\* The threads run; the encoder and the reprocess channels answer; nobody has to
\* take pictures or to stop.
Fairness ==
  /\ WF_vars(SourceSends) /\ WF_vars(DeleteChannels) /\ WF_vars(ProcessJpegEvt)
  /\ WF_vars(JpegCallback) /\ WF_vars(SaveThread) /\ WF_vars(DataProc)
  /\ \A c \in Channels : WF_vars(Callback(c))

Spec == Init /\ [][Next]_vars /\ Fairness
-----------------------------------------------------------------------------
(* Properties.                                                             *)

JobsIn(ns) == UNION {Items(n) : n \in ns}

\* The jobs a frame f is part of, the raw queue and the callbacks' hands: its owners.
Owners(f) ==
  {<<"pp", a>> : a \in {b \in JobsIn(PPQueues) : f \in PPFrames(b)}}
  \cup {<<"jpeg", j>> : j \in {k \in JobsIn(JpegQueues) : f \in JpegFrames(k)}}
  \cup {<<"raw", f>> : r \in Items("inputRaw") \cap {f}}
  \cup {<<"cb", c>> : c \in {d \in Channels :
          cb[d].at = "held" /\ (f = cb[d].frame \/ f \in PPFrames(cb[d].job))}}

\* "source frame (need to be returned back to kernel after done)"
\* (QCameraPostProc.h:52-53): every frame handed to the postprocessor has one
\* owner until it is given back, once; only an output that comes while the
\* session is being stopped may find no job, and only a raw frame that was copied
\* is never given back.
FramesReturned ==
  /\ \A f \in seen \ orphans : Cardinality(Owners(f)) + done[f] = 1
  /\ \A f \in kept : done[f] = 1 /\ world.raw /\ ~ZslChannelUsed(f)
  /\ orphans # {} => sm \in {"stop", "delete"}

\* Whichever way START, STOP, the callbacks, the encoder's events and its failures
\* interleave.
FramesAccounted == NoRefusal => FramesReturned

\* The picture of a shot is made of that shot: the output a JPEG job encodes went
\* through every pass and came from the source frame kept with it.  The code
\* pairs outputs and jobs by their order, so this needs channels that answer in
\* order and never refuse.
PictureOfItsShot ==
  NoRefusal /\ world.ordered =>
    \A j \in JobsIn(JpegQueues) :
      j.reproc # NoFrame => j.src = [shot |-> j.reproc.shot, pass |-> world.passes]

\* stop() leaves nothing behind: once it returned, every frame was given back, whatever
\* was queued, encoding or in a callback's hands when it began, but for what its source
\* channel delivered outside ZSL and was answered as a raw picture.
StoppedClean ==
  NoRefusal /\ sm = "idle" /\ ~running /\ sessions > 0 =>
    \A f \in seen : done[f] = 1 /\ (f \in kept => world.raw /\ ~world.zsl /\ f.pass = 0)

\* "wait up data proc thread to do next job, if previous request is blocked due
\* to ongoing jpeg job" (QCameraPostProc.cpp:1251-1252): a frame taken while the
\* session runs is answered by a picture or an error, unless stop() comes first;
\* no DO_NEXT_JOB is lost, whatever limit held the job up.  Four conditions: an
\* event that is too early is lost; a job a channel refused is still on the
\* queue for the next output; in a saved longshot the buffers come back from
\* the save thread only after D was told, and outputs kept as raw frames never
\* come back, so in both the buffers must not run out.
Orderly ==
  /\ ~world.early /\ NoRefusal
  /\ world.save \/ world.raw => world.passes = 0 \/ world.bufs >= MaxShots

Answered ==
  \A s \in Shots :
    (Orderly /\ running /\ Source(s) \in seen /\ done[Source(s)] = 0)
      ~> (answers[s] > 0 \/ ~running)
=============================================================================
