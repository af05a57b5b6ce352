----------------------------- MODULE JpegService -----------------------------
(***************************************************************************)
(* What a client of the JPEG encoder counts on (mm_jpeg_interface.h): a    *)
(* job that was started is answered once by the callback, unless it is     *)
(* given up by abort_job or destroy_session, and not after these returned. *)
(***************************************************************************)
CONSTANT Jobs
VARIABLE status

States == {"none", "started", "answered", "gone"}

Init == status = [j \in Jobs |-> "none"]

Turn(j, from, to) == status[j] = from /\ status' = [status EXCEPT ![j] = to]

Start(j)  == Turn(j, "none", "started")
Answer(j) == Turn(j, "started", "answered")
GiveUp(j) == Turn(j, "started", "gone")

Next == \E j \in Jobs : Start(j) \/ Answer(j) \/ GiveUp(j)

Spec == Init /\ [][Next]_status /\ \A j \in Jobs : WF_status(Answer(j) \/ GiveUp(j))
=============================================================================
