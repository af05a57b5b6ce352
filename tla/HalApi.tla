------------------------------- MODULE HalApi -------------------------------
(***************************************************************************)
(* The threads around QCameraStateMachine: callers of the camera HAL1 API, *)
(* the state machine thread with its two queues, the callback notifier and *)
(* the camera's events (camera/QCamera2/HAL/QCamera2HWI.cpp,               *)
(* QCamera2HWICallbacks.cpp, QCameraStateMachine.cpp).                     *)
(*                                                                         *)
(* A caller holds m_lock from the enqueue to its wait on m_cond, so both   *)
(* are one step here; so are a dequeue of the state machine thread and the *)
(* handler it runs, whose effects reach the others only through queues and *)
(* results.  cmd_sem counts the items of both queues (CmdThread shows the  *)
(* protocol) and is left out.                                              *)
(***************************************************************************)
EXTENDS StateMachine, FiniteSets

CONSTANTS
  Apps,         \* threads that call the HAL
  Worlds,       \* the settings of the camera, with what may happen in each:
                \*   modes          see StateMachine
                \*   retro          getNumOfRetroSnapshots() > 0
                \*   flash          mFlashNeeded
                \*   ops            ops[t]: what t may do, each a sequence of calls
                \*   daemonMayDie   can the camera daemon die
                \*   mayClose       is the camera closed
                \*   maxPictures, maxOps   bounds: pictures, operations of a caller
  MaxPictures   \* the greatest maxPictures

None == "none"

ASSUME AppsAssumption ==
  /\ IsFiniteSet(Apps) /\ None \notin Apps
  /\ MaxPictures \in Nat
  /\ \A w \in Worlds :
       /\ w.modes \in Modes
       /\ \A t \in Apps : w.ops[t] \subseteq Seq(Calls) \ {<< >>}
       /\ {w.retro, w.flash, w.daemonMayDie, w.mayClose} \subseteq BOOLEAN
       /\ w.maxPictures \in 0 .. MaxPictures /\ w.maxOps \in Nat

VARIABLES
  world,       \* the settings, which stay
  m_state,
  flags,       \* mLongshotEnabled, bRetroPicture, is there a mPreviewWindow
  api_queue,   \* calls and EXIT
  evt_queue,
  smRunning,   \* is the state machine thread there
  results,     \* m_apiResultList, each entry by its request_api
  todo,        \* the calls each caller still has to make
  waits,       \* the result each caller waits for (None: it runs)
  woken,       \* callers that a broadcast woke
  ops,         \* operations each caller has begun
  pictures,    \* pictures started
  cam,         \* what the camera still has to deliver
  ncmds,       \* the notifier's commands: START with its picture, or 0 for STOP
  notifier,    \* its thread: "running", "sync" (processSyncEvt), "exited"
  armed,       \* the picture it has to report, 0 for none
  closing      \* ~QCamera2HardwareInterface: "open", "release", "join", "closed"

callers == <<todo, waits, woken, ops>>
notify  == <<ncmds, notifier, armed>>
vars == <<world, m_state, flags, api_queue, evt_queue, smRunning, results, callers,
          pictures, cam, notify, closing>>

\* The camera takes picture pic (0: none).  Before it is complete: the retro frames
\* and their READY_FOR_SNAPSHOT (retro), a prepared flash (led), the preparation
\* under way (prep).  channel: the capture channel runs.  alive: so does the daemon.
Camera == [pic : 0 .. MaxPictures, retro : BOOLEAN, led : BOOLEAN, prep : BOOLEAN,
           channel : BOOLEAN, alive : BOOLEAN]

TypeOK ==
  /\ world \in Worlds
  /\ m_state \in States
  /\ flags \in [longshot : BOOLEAN, retro : BOOLEAN, window : BOOLEAN]
  /\ api_queue \in Seq(Calls \cup {"EXIT"})
  /\ evt_queue \in Seq(Evts)
  /\ smRunning \in BOOLEAN
  /\ results \in Seq(Apis)
  /\ todo \in [Apps -> Seq(Calls)]
  /\ waits \in [Apps -> Apis \cup {None}]
  /\ woken \subseteq {t \in Apps : waits[t] # None}
  /\ ops \in [Apps -> 0 .. world.maxOps]
  /\ pictures \in 0 .. world.maxPictures
  /\ cam \in Camera
  /\ ncmds \in Seq(0 .. MaxPictures)
  /\ notifier \in {"running", "sync", "exited"}
  /\ armed \in 0 .. MaxPictures
  /\ closing \in {"open", "release", "join", "closed"}

Init ==
  /\ world \in Worlds
  /\ m_state = "PREVIEW_STOPPED"
  /\ flags = [longshot |-> FALSE, retro |-> FALSE, window |-> TRUE]
  /\ api_queue = << >> /\ evt_queue = << >>
  /\ smRunning = TRUE
  /\ results = << >>
  /\ todo = [t \in Apps |-> << >>]
  /\ waits = [t \in Apps |-> None]
  /\ woken = {}
  /\ ops = [t \in Apps |-> 0]
  /\ pictures = 0
  /\ cam = [pic |-> 0, retro |-> FALSE, led |-> FALSE, prep |-> FALSE,
            channel |-> FALSE, alive |-> TRUE]
  /\ ncmds = << >> /\ notifier = "running" /\ armed = 0
  /\ closing = "open"
-----------------------------------------------------------------------------
(* The callers.                                                            *)

\* An entry point of the HAL, or a few in a row, that make the calls in op.
Begin(t, op) ==
  /\ closing = "open"
  /\ waits[t] = None /\ todo[t] = << >> /\ ops[t] < world.maxOps
  /\ todo' = [todo EXCEPT ![t] = op]
  /\ ops' = [ops EXCEPT ![t] = @ + 1]
  /\ UNCHANGED <<m_state, flags, api_queue, evt_queue, smRunning, results, waits, woken,
                 pictures, cam, notify, closing, world>>

\* take_picture decides whether the picture is a retro one before it calls.
RetroPicture(call) ==
  IF call = "TAKE_PICTURE"
  THEN world.retro /\ world.modes.zsl /\ ~flags.longshot /\ m_state \notin {"RECORDING", "VIDEO_PIC_TAKING"}
  ELSE flags.retro

\* lockAPI(), processAPI() and the pthread_cond_wait of waitAPIResult().
Call(t) ==
  /\ waits[t] = None /\ todo[t] # << >>
  /\ api_queue' = Append(api_queue, Head(todo[t]))
  /\ todo' = [todo EXCEPT ![t] = Tail(@)]
  /\ waits' = [waits EXCEPT ![t] = Api(Head(todo[t]))]
  /\ flags' = [flags EXCEPT !.retro = RetroPicture(Head(todo[t]))]
  /\ UNCHANGED <<m_state, evt_queue, smRunning, results, woken, ops, pictures, cam,
                 notify, closing, world>>

\* Variant for the checks: a caller that has its result still counts as woken.
ReturnStaysWoken(t) ==
  /\ t \in woken
  /\ \E i \in DOMAIN results :
       /\ results[i] = waits[t]
       /\ results' = SubSeq(results, 1, i - 1) \o SubSeq(results, i + 1, Len(results))
  /\ waits' = [waits EXCEPT ![t] = None]
  /\ UNCHANGED <<m_state, flags, api_queue, evt_queue, smRunning, todo, woken, ops,
                 pictures, cam, notify, closing, world>>

\* Variant: the list is not unlinked at its head, and the next entry goes instead.
ReturnUnlinksNext(t) ==
  LET hits == {i \in DOMAIN results : results[i] = waits[t]}
      first == CHOOSE i \in hits : \A k \in hits : i <= k
  IN /\ t \in woken
     /\ woken' = woken \ {t}
     /\ IF hits = {}
        THEN UNCHANGED <<results, waits>>
        ELSE /\ results' = SubSeq(results, 1, first)
                             \o SubSeq(results, first + 2, Len(results))
             /\ waits' = [waits EXCEPT ![t] = None]
     /\ UNCHANGED <<m_state, flags, api_queue, evt_queue, smRunning, todo, ops,
                    pictures, cam, notify, closing, world>>

\* The loop of waitAPIResult() after a wake-up takes the first result for the call;
\* without one it waits again.
Return(t) ==
  LET hits == {i \in DOMAIN results : results[i] = waits[t]}
      first == CHOOSE i \in hits : \A k \in hits : i <= k
  IN /\ t \in woken
     /\ woken' = woken \ {t}
     /\ IF hits = {}
        THEN UNCHANGED <<results, waits>>
        ELSE /\ results' = SubSeq(results, 1, first - 1)
                             \o SubSeq(results, first + 1, Len(results))
             /\ waits' = [waits EXCEPT ![t] = None]
     /\ UNCHANGED <<m_state, flags, api_queue, evt_queue, smRunning, todo, ops,
                    pictures, cam, notify, closing, world>>
-----------------------------------------------------------------------------
(* The state machine thread.                                               *)

\* sendCommand(), which every state but PREPARE_SNAPSHOT calls.
LongshotOn(e)  == e = "LONGSHOT_ON" /\ m_state \notin Capturing \cup {"PREPARE_SNAPSHOT"}
LongshotOff(e) == e = "LONGSHOT_OFF" /\ m_state # "PREPARE_SNAPSHOT"

FlagsAfter(e) ==
  [flags EXCEPT
     !.longshot = (@ \/ LongshotOn(e)) /\ ~LongshotOff(e),
     !.window = IF m_state \in {"PREVIEW_STOPPED", "PREVIEW_READY"}
                THEN (@ \/ e = "SET_WINDOW") /\ e # "CLEAR_WINDOW" ELSE @]

\* Variant: switching longshot off never cancels the picture.
EndsLongshotNever(e) == FALSE

\* Switching longshot off while a picture is taken cancels it and reports it done.
EndsLongshot(e) == LongshotOff(e) /\ flags.longshot /\ m_state \in Capturing

\* takePicture(), cancelPicture() or cancelLiveSnapshot(), prepareHardwareForSnapshot().
\* The first two start and stop the notifier's snapshots, with priority.
Work(w) ==
  CASE w = "take" ->
         /\ pictures' = pictures + 1
         /\ cam' = [cam EXCEPT !.pic = pictures + 1, !.retro = flags.retro,
                               !.led = flags.retro /\ world.flash,
                               !.channel = ~world.modes.zsl /\ m_state # "RECORDING"]
         /\ ncmds' = <<pictures + 1>> \o ncmds
    [] w = "cancel" ->
         /\ cam' = [cam EXCEPT !.pic = 0, !.retro = FALSE, !.led = FALSE,
                               !.channel = FALSE]
         /\ ncmds' = <<0>> \o ncmds
         /\ UNCHANGED pictures
    [] w = "prepare" ->
         cam' = [cam EXCEPT !.prep = TRUE] /\ UNCHANGED <<pictures, ncmds>>
    [] w = "none" -> UNCHANGED <<pictures, cam, ncmds>>

\* Variant: pthread_cond_signal for pthread_cond_broadcast.
HandledSignalsOne(e, o) ==
  /\ o.work = "take" => pictures < world.maxPictures
  /\ m_state' = o.state
  /\ flags' = FlagsAfter(e)
  /\ results' = results \o o.answers
  /\ LET asleep == {t \in Apps : waits[t] # None} \ woken IN
       IF o.answers = << >> \/ asleep = {} THEN UNCHANGED woken
       ELSE \E t \in asleep : woken' = woken \cup {t}
  /\ Work(IF EndsLongshot(e) THEN "cancel" ELSE o.work)

\* What the handler of e does to all but the queues: the calls it answers wake
\* every waiter (signalAPIResult).
Handled(e, o) ==
  /\ o.work = "take" => pictures < world.maxPictures
  /\ m_state' = o.state
  /\ flags' = FlagsAfter(e)
  /\ results' = results \o o.answers
  /\ woken' = IF o.answers = << >> THEN woken ELSE {t \in Apps : waits[t] # None}
  /\ Work(IF EndsLongshot(e) THEN "cancel" ELSE o.work)

\* Whether what a handler asks of the camera succeeds; without its daemon nothing does.
Luck == IF cam.alive THEN [ok : BOOLEAN, restart : BOOLEAN]
                     ELSE {[ok |-> FALSE, restart |-> FALSE]}

\* smEvtProcRoutine: a call, which has precedence ...
SmCall ==
  /\ smRunning /\ api_queue # << >> /\ Head(api_queue) # "EXIT"
  /\ LET e == Head(api_queue) IN
       /\ \E r \in Luck : Handled(e, Handle(m_state, e, flags, world.modes, r))
       /\ evt_queue' = IF EndsLongshot(e)
                       THEN Append(evt_queue, "SNAPSHOT_DONE")
                       ELSE evt_queue
  /\ api_queue' = Tail(api_queue)
  /\ UNCHANGED <<smRunning, todo, waits, ops, notifier, armed, closing, world>>

\* Variant: SNAPSHOT_DONE answers processSyncEvt in a capture state only.
SmEvtAnswersCapture ==
  /\ smRunning /\ api_queue = << >> /\ evt_queue # << >>
  /\ LET e == Head(evt_queue) IN
       /\ \E r \in Luck : Handled(e, Handle(m_state, e, flags, world.modes, r))
       /\ notifier' = IF e = "SNAPSHOT_DONE" /\ notifier = "sync" /\ m_state \in Capturing
                      THEN "running" ELSE notifier
  /\ evt_queue' = Tail(evt_queue)
  /\ UNCHANGED <<api_queue, smRunning, todo, waits, ops, armed, closing, world>>

\* ... an event; SNAPSHOT_DONE also wakes processSyncEvt (signalEvtResult) ...
SmEvt ==
  /\ smRunning /\ api_queue = << >> /\ evt_queue # << >>
  /\ LET e == Head(evt_queue) IN
       /\ \E r \in Luck : Handled(e, Handle(m_state, e, flags, world.modes, r))
       /\ notifier' = IF e = "SNAPSHOT_DONE" /\ notifier = "sync" THEN "running"
                      ELSE notifier
  /\ evt_queue' = Tail(evt_queue)
  /\ UNCHANGED <<api_queue, smRunning, todo, waits, ops, armed, closing, world>>

\* ... or EXIT.
SmExit ==
  /\ smRunning /\ api_queue # << >> /\ Head(api_queue) = "EXIT"
  /\ smRunning' = FALSE
  /\ api_queue' = Tail(api_queue)
  /\ UNCHANGED <<m_state, flags, evt_queue, results, callers, pictures, cam, notify,
                 closing, world>>
-----------------------------------------------------------------------------
(* The camera.                                                             *)

Event(e) == evt_queue' = Append(evt_queue, e)

UnchangedByCamera ==
  UNCHANGED <<m_state, flags, smRunning, results, callers, pictures, ncmds, closing, world>>

\* metadata_stream_cb_routine: the metadata of a prepared frame.
MetaPrep ==
  /\ cam.alive /\ cam.prep
  /\ Event("PREP_SNAPSHOT_DONE")
  /\ cam' = [cam EXCEPT !.prep = FALSE, !.led = FALSE]
  /\ UNCHANGED <<api_queue, notifier, armed>> /\ UnchangedByCamera

\* zsl_channel_cb: the last retro frame has bReadyForPrepareSnapshot.
FrameReady ==
  /\ cam.alive /\ cam.retro
  /\ Event("READY_FOR_SNAPSHOT")
  /\ cam' = [cam EXCEPT !.retro = FALSE]
  /\ UNCHANGED <<api_queue, notifier, armed>> /\ UnchangedByCamera

\* stopCapture(): the post-processor has the frames and has the channel stopped; it
\* does not wait for the result.
StopCapture ==
  /\ closing = "open" /\ cam.alive /\ cam.channel
  /\ api_queue' = Append(api_queue, "STOP_CAPTURE_CHANNEL")
  /\ cam' = [cam EXCEPT !.channel = FALSE]
  /\ UNCHANGED <<evt_queue, notifier, armed>> /\ UnchangedByCamera

\* cbNotifyRoutine: START and STOP of snapshots.
NotifierCmd ==
  /\ notifier = "running" /\ ncmds # << >>
  /\ armed' = Head(ncmds)
  /\ ncmds' = Tail(ncmds)
  /\ UNCHANGED <<m_state, flags, api_queue, evt_queue, smRunning, results, callers,
                 pictures, cam, notifier, closing, world>>

\* cbNotifyRoutine: the last JPEG of the picture; processSyncEvt(SNAPSHOT_DONE).
NotifierAll ==
  /\ notifier = "running"
  /\ armed # 0 /\ cam.alive /\ cam.pic = armed
  /\ ~(cam.retro \/ cam.led \/ cam.prep)
  /\ Event("SNAPSHOT_DONE")
  /\ notifier' = "sync" /\ armed' = 0
  /\ UNCHANGED <<api_queue, cam>> /\ UnchangedByCamera

\* camEvtHandle: CAM_EVENT_TYPE_DAEMON_DIED wakes who waits for deferred work, which is
\* not modelled; unlike every other event of the camera it is not handed on to the
\* state machine.
DaemonDies ==
  /\ world.daemonMayDie /\ cam.alive
  /\ cam' = [cam EXCEPT !.alive = FALSE]
  /\ UNCHANGED <<api_queue, evt_queue, notifier, armed>> /\ UnchangedByCamera
-----------------------------------------------------------------------------
(* ~QCamera2HardwareInterface, which the framework calls when no call is   *)
(* under way.                                                              *)

\* m_smThreadActive = false and releaseThread().
Close ==
  /\ world.mayClose /\ closing = "open"
  /\ \A t \in Apps : waits[t] = None /\ todo[t] = << >>
  /\ closing' = "release"
  /\ api_queue' = Append(api_queue, "EXIT")
  /\ UNCHANGED <<m_state, flags, evt_queue, smRunning, results, callers, pictures, cam,
                 notify, world>>

\* closeCamera(): m_cbNotifier.exit() ...
ExitNotifier ==
  /\ closing = "release" /\ ~smRunning
  /\ closing' = "join"
  /\ UNCHANGED <<m_state, flags, api_queue, evt_queue, smRunning, results, callers,
                 pictures, cam, notify, world>>

\* ... whose EXIT overtakes the other commands ...
NotifierExit ==
  /\ closing = "join" /\ notifier = "running"
  /\ notifier' = "exited" /\ armed' = 0
  /\ UNCHANGED <<m_state, flags, api_queue, evt_queue, smRunning, results, callers,
                 pictures, cam, ncmds, closing, world>>

\* ... and the rest, which frees the results nobody has taken.
CloseReturn ==
  /\ closing = "join" /\ notifier = "exited"
  /\ closing' = "closed"
  /\ results' = << >>
  /\ cam' = [cam EXCEPT !.pic = 0, !.retro = FALSE, !.led = FALSE, !.prep = FALSE,
                        !.channel = FALSE]
  /\ UNCHANGED <<m_state, flags, api_queue, evt_queue, smRunning, callers, pictures,
                 notify, world>>
-----------------------------------------------------------------------------
StateMachineThread == SmCall \/ SmEvt \/ SmExit
Hardware == MetaPrep \/ FrameReady \/ StopCapture
NotifierThread == NotifierCmd \/ NotifierAll \/ NotifierExit

Next ==
  \/ \E t \in Apps : \E op \in world.ops[t] : Begin(t, op)
  \/ \E t \in Apps : Call(t) \/ Return(t)
  \/ StateMachineThread
  \/ Hardware \/ DaemonDies
  \/ NotifierThread
  \/ Close \/ ExitNotifier \/ CloseReturn

\* Every thread that can run does; the camera answers while its daemon lives.
Fairness ==
  /\ \A t \in Apps : WF_vars(Call(t)) /\ WF_vars(Return(t))
  /\ WF_vars(StateMachineThread)
  /\ WF_vars(MetaPrep) /\ WF_vars(FrameReady)
  /\ WF_vars(NotifierCmd) /\ WF_vars(NotifierAll) /\ WF_vars(NotifierExit)
  /\ WF_vars(ExitNotifier) /\ WF_vars(CloseReturn)

Spec == Init /\ [][Next]_vars /\ Fairness
-----------------------------------------------------------------------------
(* Properties.                                                             *)

Count(s, P(_)) == Cardinality({i \in DOMAIN s : P(s[i])})

Queued(e) == \E i \in DOMAIN evt_queue : evt_queue[i] = e

\* An answer that an event, not the call, will give: the camera still owes the
\* event or it is on its way.
Postponed(a) ==
  CASE a = "PREPARE_SNAPSHOT" -> cam.prep \/ Queued("PREP_SNAPSHOT_DONE")
    [] a = "TAKE_PICTURE"     -> cam.retro \/ Queued("READY_FOR_SNAPSHOT")
    [] OTHER                  -> FALSE

\* For each API there are as many callers waiting as there are calls to be handled,
\* answers to be given and results on the list: no result is left for a later caller
\* to take as its own, and none is lost.
OneAnswerEach ==
  closing # "closed" =>
    \A a \in Apis \ {"STOP_CAPTURE_CHANNEL", "SNAPSHOT_DONE"} :
      LET queued(e) == e # "EXIT" /\ Api(e) = a
          answered(x) == x = a
      IN Cardinality({t \in Apps : waits[t] = a}) =
           Count(api_queue, queued) + Count(results, answered)
             + (IF Postponed(a) THEN 1 ELSE 0)

\* "check if image capture is in process" (QCameraStateMachine.cpp:3780): the state says
\* a picture is being taken exactly when the camera takes one, but for a video
\* snapshot that longshot cancelled and whose SNAPSHOT_DONE is on its way.
CaptureState ==
  closing # "closed" =>
    \/ (m_state \in Capturing) <=> (cam.pic # 0)
    \/ m_state \in Capturing /\ cam.pic = 0 /\ Queued("SNAPSHOT_DONE")

\* The daemon died owing t its answer.
Stranded(t) ==
  ~cam.alive /\ \/ waits[t] = "PREPARE_SNAPSHOT" /\ cam.prep
                \/ waits[t] = "TAKE_PICTURE" /\ cam.retro

\* "wait for API result coming back" (QCamera2HWI.cpp:6663): every call returns, also
\* when the daemon dies, but for a PREPARE_SNAPSHOT or a retro TAKE_PICTURE whose
\* answer it still owes.
ApiReturns == \A t \in Apps : waits[t] # None ~> waits[t] = None \/ Stranded(t)

\* The notifier gets its answer from processSyncEvt while the camera is open.
SyncEvtReturns == notifier = "sync" ~> notifier # "sync" \/ closing # "open"
=============================================================================
