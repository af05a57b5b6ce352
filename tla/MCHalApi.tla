------------------------------ MODULE MCHalApi ------------------------------
(***************************************************************************)
(* The worlds of HalApi's run, each with what the callers do in it: the    *)
(* framework, and a second thread (dump, a tuning tool) that asks, or      *)
(* whose parameters restart the preview.                                   *)
(***************************************************************************)
EXTENDS HalApi, TLC

CONSTANTS framework, tool

Callers == {framework, tool}

Picture == <<"PREPARE_SNAPSHOT", "TAKE_PICTURE">>

\* Stills and videos, stopped or cancelled at any time, the next picture taken at once.
StillOps ==
  framework :> {<<"START_PREVIEW">>, <<"STOP_PREVIEW">>, Picture,
                <<"CANCEL_PICTURE">> \o Picture, <<"START_RECORDING">> \o Picture,
                <<"STOP_RECORDING">>}
  @@ tool :> {<<"SET_PARAMS_RESTART">>}

\* Zero shutter lag and bursts of longshot, also while recording, and a window that
\* comes late.
LongshotOps ==
  framework :> {<<"CLEAR_WINDOW", "START_PREVIEW", "SET_WINDOW">>,
                <<"PREPARE_PREVIEW", "START_NODISPLAY_PREVIEW">>,
                <<"LONGSHOT_ON", "TAKE_PICTURE", "LONGSHOT_OFF">>,
                <<"START_RECORDING", "LONGSHOT_ON", "TAKE_PICTURE", "LONGSHOT_OFF",
                  "STOP_RECORDING">>}
  @@ tool :> {<<"SET_PARAMS_RESTART">>}

\* Retro pictures: the flash is prepared when the retro frames are there.
RetroOps ==
  framework :> {<<"START_PREVIEW">>, <<"TAKE_PICTURE", "PREPARE_SNAPSHOT">>}
  @@ tool :> {<<"QUERY">>}

Mode(z, p) == [zsl |-> z, previewRestart |-> p, manual |-> FALSE]

Still ==
  [modes |-> Mode(FALSE, TRUE), retro |-> FALSE, flash |-> FALSE, ops |-> StillOps,
   daemonMayDie |-> TRUE, mayClose |-> TRUE, maxPictures |-> 2, maxOps |-> 3]

Longshot ==
  [modes |-> Mode(TRUE, FALSE), retro |-> FALSE, flash |-> FALSE, ops |-> LongshotOps,
   daemonMayDie |-> FALSE, mayClose |-> FALSE, maxPictures |-> 2, maxOps |-> 3]

RetroShot ==
  [modes |-> Mode(TRUE, FALSE), retro |-> TRUE, flash |-> TRUE, ops |-> RetroOps,
   daemonMayDie |-> TRUE, mayClose |-> FALSE, maxPictures |-> 1, maxOps |-> 2]

AllWorlds == {Still, Longshot, RetroShot}
=============================================================================
