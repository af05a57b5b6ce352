---------------------------- MODULE StateMachine ----------------------------
(***************************************************************************)
(* QCameraStateMachine (camera/QCamera2/HAL/QCameraStateMachine.cpp): what *)
(* each of the eight procEvt...State functions does with an event.  One    *)
(* operator per function gives the state the event leads to, the calls it  *)
(* answers (signalAPIResult, in order) and what it has the camera do.      *)
(*                                                                         *)
(* Of the calls only those appear that some state treats specially; the    *)
(* others (parameters, message types, auto focus, dump, ...) are answered  *)
(* once in every state and leave it alone, and Query stands for them.      *)
(* The branches for CAM_EVENT_TYPE_DAEMON_DIED are left out: camEvtHandle  *)
(* keeps that event to itself, so nobody enqueues it (see HalApi).         *)
(***************************************************************************)
EXTENDS Integers, Sequences

\* isZSLMode(), isPreviewRestartEnabled(), and getManualCaptureMode() >=
\* CAM_MANUAL_CAPTURE_TYPE_3.
Modes == [zsl : BOOLEAN, previewRestart : BOOLEAN, manual : BOOLEAN]

States == {"PREVIEW_STOPPED", "PREVIEW_READY", "PREVIEWING", "PREPARE_SNAPSHOT",
           "PIC_TAKING", "RECORDING", "VIDEO_PIC_TAKING", "PREVIEW_PIC_TAKING"}

\* SET_WINDOW and CLEAR_WINDOW are SET_PREVIEW_WINDOW with a window and without
\* one, LONGSHOT_ON and LONGSHOT_OFF are two commands of SEND_COMMAND.
Calls == {"QUERY", "SET_WINDOW", "CLEAR_WINDOW", "PREPARE_PREVIEW", "START_PREVIEW",
          "START_NODISPLAY_PREVIEW", "STOP_PREVIEW", "SET_PARAMS_RESTART",
          "START_RECORDING", "STOP_RECORDING", "RELEASE_RECORIDNG_FRAME",
          "PREPARE_SNAPSHOT", "TAKE_PICTURE", "CANCEL_PICTURE", "LONGSHOT_ON",
          "LONGSHOT_OFF", "SEND_COMMAND_RESTART", "REG_FACE_IMAGE",
          "STOP_CAPTURE_CHANNEL"}

\* Internal events, and the event that ends a picture.
Evts == {"PREP_SNAPSHOT_DONE", "READY_FOR_SNAPSHOT", "SNAPSHOT_DONE"}

\* isCaptureRunning().
Capturing == {"PIC_TAKING", "VIDEO_PIC_TAKING", "PREVIEW_PIC_TAKING"}

\* request_api of a call.
Api(e) ==
  IF e \in {"LONGSHOT_ON", "LONGSHOT_OFF"} THEN "SEND_COMMAND"
  ELSE IF e \in {"SET_WINDOW", "CLEAR_WINDOW"} THEN "SET_PREVIEW_WINDOW" ELSE e

Apis == {Api(e) : e \in Calls} \cup {"SNAPSHOT_DONE"}

\* What a handler has the camera do: nothing, prepare the hardware for a snapshot,
\* take a picture, give the picture up.
Works == {"none", "prepare", "take", "cancel"}

\* What a call or an event comes to: the next state, the results signalled, the work.
Answer(s, e) == [state |-> s, answers |-> <<Api(e)>>, work |-> "none"]
Ignore(s)    == [state |-> s, answers |-> << >>,      work |-> "none"]
Doing(o, w)  == [o EXCEPT !.work = w]

\* Calls that fall into a default branch, which only logs.
Stray == {"SEND_COMMAND_RESTART", "STOP_CAPTURE_CHANNEL"}
-----------------------------------------------------------------------------
(* The states.  f holds mLongshotEnabled, bRetroPicture and whether there  *)
(* is a mPreviewWindow, m the modes; r.ok says whether the HAL call the    *)
(* handler makes succeeds and r.restart whether the preview can be         *)
(* prepared again.                                                         *)

PreviewStopped(e, f, m, r) ==
  CASE e = "PREPARE_PREVIEW" /\ r.ok       -> Answer("PREVIEW_READY", e)
    [] e = "START_PREVIEW" /\ r.ok         ->
         Answer(IF f.window THEN "PREVIEWING" ELSE "PREVIEW_READY", e)
    [] e = "START_NODISPLAY_PREVIEW" /\ r.ok -> Answer("PREVIEWING", e)
    [] e \in Stray \cup Evts \cup {"RELEASE_RECORIDNG_FRAME"} -> Ignore("PREVIEW_STOPPED")
    [] OTHER                               -> Answer("PREVIEW_STOPPED", e)

PreviewReady(e, f, m, r) ==
  LET started == IF r.ok THEN "PREVIEWING" ELSE "PREVIEW_STOPPED" IN
  CASE e = "SET_WINDOW"                    -> Answer(started, e)
    [] e = "START_PREVIEW" /\ f.window     -> Answer(started, e)
    [] e = "START_NODISPLAY_PREVIEW"       -> Answer(started, e)
    [] e = "SET_PARAMS_RESTART" /\ ~r.ok   -> Answer("PREVIEW_STOPPED", e)
    [] e = "STOP_PREVIEW"                  -> Answer("PREVIEW_STOPPED", e)
    [] e \in Stray \cup Evts \cup {"RELEASE_RECORIDNG_FRAME"} -> Ignore("PREVIEW_READY")
    [] OTHER                               -> Answer("PREVIEW_READY", e)

\* TAKE_PICTURE with ZSL or longshot goes on with the preview unless it has to be
\* restarted; a retro picture is answered later, by READY_FOR_SNAPSHOT.  After a
\* failure the other branch restarts the preview, if it can.
TakePicture(f, m, r) ==
  LET e == "TAKE_PICTURE"
      fast == m.zsl \/ f.longshot
      taking == IF fast /\ ~(m.previewRestart /\ m.manual)
                THEN "PREVIEW_PIC_TAKING" ELSE "PIC_TAKING"
  IN IF r.ok
     THEN Doing(IF fast /\ f.retro THEN Ignore(taking) ELSE Answer(taking, e), "take")
     ELSE Answer(IF fast \/ r.restart THEN "PREVIEWING" ELSE "PREVIEW_STOPPED", e)

\* Variant for the checks: a prepared snapshot is answered at once.
PreviewingAnswersPrepare(e, f, m, r) ==
  CASE e = "STOP_PREVIEW"                  -> Answer("PREVIEW_STOPPED", e)
    [] e = "START_RECORDING" /\ r.ok       -> Answer("RECORDING", e)
    [] e = "PREPARE_SNAPSHOT" /\ r.ok        -> Doing(Answer("PREPARE_SNAPSHOT", e), "prepare")
    [] e = "TAKE_PICTURE"                  -> TakePicture(f, m, r)
    [] e \in Evts                          -> Ignore("PREVIEWING")
    [] OTHER                               -> Answer("PREVIEWING", e)

\* A restart that fails leaves the state alone unless the preview was prepared.
Previewing(e, f, m, r) ==
  CASE e = "SET_PARAMS_RESTART" /\ ~r.ok /\ r.restart
                                           -> Answer("PREVIEW_STOPPED", e)
    [] e = "STOP_PREVIEW"                  -> Answer("PREVIEW_STOPPED", e)
    [] e = "START_RECORDING" /\ r.ok       -> Answer("RECORDING", e)
    [] e = "PREPARE_SNAPSHOT" /\ r.ok        -> Doing(Ignore("PREPARE_SNAPSHOT"), "prepare")
    [] e = "TAKE_PICTURE"                  -> TakePicture(f, m, r)
    [] e \in Evts \cup {"RELEASE_RECORIDNG_FRAME", "STOP_CAPTURE_CHANNEL"}
                                           -> Ignore("PREVIEWING")
    [] OTHER                               -> Answer("PREVIEWING", e)

\* Everything but the metadata that says the hardware is prepared fails.
PrepareSnapshot(e, f, m, r) ==
  CASE e = "PREP_SNAPSHOT_DONE"            -> Answer("PREVIEWING", "PREPARE_SNAPSHOT")
    [] e \in Stray \cup {"READY_FOR_SNAPSHOT", "SNAPSHOT_DONE", "REG_FACE_IMAGE"}
                                           -> Ignore("PREPARE_SNAPSHOT")
    [] OTHER                               -> Answer("PREPARE_SNAPSHOT", e)

\* Variant: the preview is stopped and the picture is left alone.
PicTakingForgetsPicture(e, f, m, r) ==
  CASE e = "STOP_PREVIEW"                  -> Answer("PREVIEW_STOPPED", e)
    [] e = "CANCEL_PICTURE"                -> Doing(Answer("PREVIEW_STOPPED", e), "cancel")
    [] e = "LONGSHOT_OFF"                  -> Answer("PREVIEWING", e)
    [] e = "SNAPSHOT_DONE" ->
         Doing(Ignore(IF m.previewRestart THEN "PREVIEWING" ELSE "PREVIEW_STOPPED"), "cancel")
    [] e \in {"PREP_SNAPSHOT_DONE", "READY_FOR_SNAPSHOT", "SEND_COMMAND_RESTART"}
                                           -> Ignore("PIC_TAKING")
    [] OTHER                               -> Answer("PIC_TAKING", e)

PicTaking(e, f, m, r) ==
  CASE e \in {"STOP_PREVIEW", "CANCEL_PICTURE"} ->
         Doing(Answer("PREVIEW_STOPPED", e), "cancel")
    [] e = "LONGSHOT_OFF"                  -> Answer("PREVIEWING", e)
    [] e = "SNAPSHOT_DONE" ->
         Doing(Ignore(IF m.previewRestart THEN "PREVIEWING" ELSE "PREVIEW_STOPPED"), "cancel")
    [] e \in {"PREP_SNAPSHOT_DONE", "READY_FOR_SNAPSHOT", "SEND_COMMAND_RESTART"}
                                           -> Ignore("PIC_TAKING")
    [] OTHER                               -> Answer("PIC_TAKING", e)

Recording(e, f, m, r) ==
  CASE e = "TAKE_PICTURE" /\ r.ok            -> Doing(Answer("VIDEO_PIC_TAKING", e), "take")
    [] e = "STOP_RECORDING"                -> Answer("PREVIEWING", e)
    [] e = "STOP_PREVIEW"                  -> Answer("PREVIEW_STOPPED", e)
    [] e \in Stray \cup Evts               -> Ignore("RECORDING")
    [] OTHER                               -> Answer("RECORDING", e)

VideoPicTaking(e, f, m, r) ==
  CASE e = "STOP_RECORDING" -> Doing(Answer("PREVIEWING", e), "cancel")
    [] e = "CANCEL_PICTURE" -> Doing(Answer("RECORDING", e), "cancel")
    [] e = "STOP_PREVIEW"   -> Doing(Answer("PREVIEW_STOPPED", e), "cancel")
    [] e = "SNAPSHOT_DONE"  -> Doing(Ignore("RECORDING"), "cancel")
    [] e \in Stray \cup (Evts \ {"SNAPSHOT_DONE"}) -> Ignore("VIDEO_PIC_TAKING")
    [] OTHER                -> Answer("VIDEO_PIC_TAKING", e)

\* Variant: the event that retro frames are there is forgotten.
PreviewPicTakingNotReady(e, f, m, r) ==
  CASE e = "PREPARE_SNAPSHOT" /\ f.retro /\ r.ok ->
         Doing(Ignore("PREVIEW_PIC_TAKING"), "prepare")
    [] e = "PREP_SNAPSHOT_DONE" /\ f.retro -> Answer("PREVIEW_PIC_TAKING", "PREPARE_SNAPSHOT")
    [] e = "SNAPSHOT_DONE"                 -> Doing(Ignore("PREVIEWING"), "cancel")
    [] e = "PREP_SNAPSHOT_DONE" /\ ~f.retro -> Ignore("PREVIEW_PIC_TAKING")
    [] e \in Stray \cup {"READY_FOR_SNAPSHOT"} -> Ignore("PREVIEW_PIC_TAKING")
    [] OTHER                               -> Answer("PREVIEW_PIC_TAKING", e)

\* The retro branch of SNAPSHOT_DONE also answers a call nobody makes.
PreviewPicTaking(e, f, m, r) ==
  CASE e = "SET_PARAMS_RESTART" /\ ~r.ok   -> Answer("PIC_TAKING", e)
    [] e = "LONGSHOT_OFF"                  -> Answer("PREVIEWING", e)
    [] e = "CANCEL_PICTURE"                -> Doing(Answer("PREVIEWING", e), "cancel")
    [] e = "STOP_PREVIEW"                  -> Doing(Answer("PREVIEW_STOPPED", e), "cancel")
    [] e = "START_RECORDING" /\ ~m.zsl /\ ~f.longshot /\ r.ok
                                           -> Answer("VIDEO_PIC_TAKING", e)
    [] e = "PREPARE_SNAPSHOT" /\ f.retro /\ r.ok ->
         Doing(Ignore("PREVIEW_PIC_TAKING"), "prepare")
    [] e = "PREP_SNAPSHOT_DONE" /\ f.retro -> Answer("PREVIEW_PIC_TAKING", "PREPARE_SNAPSHOT")
    [] e = "READY_FOR_SNAPSHOT" /\ f.retro -> Answer("PREVIEW_PIC_TAKING", "TAKE_PICTURE")
    [] e = "SNAPSHOT_DONE" /\ f.retro      -> Doing(Answer("PREVIEWING", e), "cancel")
    [] e = "SNAPSHOT_DONE" /\ ~f.retro     -> Doing(Ignore("PREVIEWING"), "cancel")
    [] e \in {"PREP_SNAPSHOT_DONE", "READY_FOR_SNAPSHOT"} /\ ~f.retro
                                           -> Ignore("PREVIEW_PIC_TAKING")
    [] e \in Stray                         -> Ignore("PREVIEW_PIC_TAKING")
    [] OTHER                               -> Answer("PREVIEW_PIC_TAKING", e)

\* stateMachine().
Handle(s, e, f, m, r) ==
  CASE s = "PREVIEW_STOPPED"    -> PreviewStopped(e, f, m, r)
    [] s = "PREVIEW_READY"      -> PreviewReady(e, f, m, r)
    [] s = "PREVIEWING"         -> Previewing(e, f, m, r)
    [] s = "PREPARE_SNAPSHOT"   -> PrepareSnapshot(e, f, m, r)
    [] s = "PIC_TAKING"         -> PicTaking(e, f, m, r)
    [] s = "RECORDING"          -> Recording(e, f, m, r)
    [] s = "VIDEO_PIC_TAKING"   -> VideoPicTaking(e, f, m, r)
    [] s = "PREVIEW_PIC_TAKING" -> PreviewPicTaking(e, f, m, r)
=============================================================================
