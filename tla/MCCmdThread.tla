----------------------------- MODULE MCCmdThread ----------------------------
(* QCameraCmdThread as the postprocessor uses it.                          *)
EXTENDS CmdThread

\* QCameraPostProcessor::start() and stop() (QCameraPostProc.cpp:294, :324).
PostProcCalls ==
  {[cmd |-> "START_DATA_PROC", sync |-> TRUE, prio |-> FALSE],
   [cmd |-> "STOP_DATA_PROC",  sync |-> TRUE, prio |-> TRUE]}

StartStop == {"START_DATA_PROC", "STOP_DATA_PROC"}
=============================================================================
