----------------------------- MODULE CmdMailbox -----------------------------
(***************************************************************************)
(* What QCameraCmdThread promises its users: a mailbox of commands and a   *)
(* worker that takes them one at a time.  A sent command is there to be    *)
(* taken at once, a command with priority before all others; the worker    *)
(* takes while there is something to take, and ends with EXIT.             *)
(***************************************************************************)
EXTENDS Sequences

CONSTANT Calls    \* the calls that can be sent: [cmd, prio, ...] records

VARIABLES
  box,      \* the calls sent and not yet taken
  state,    \* the worker: "none", "wait" or "run"
  last      \* the call taken last

mvars == <<box, state, last>>

Init == box = << >> /\ state = "none" /\ last \in Calls

Send(c) ==
  /\ box' = IF c.prio THEN <<c>> \o box ELSE Append(box, c)
  /\ UNCHANGED <<state, last>>

Start == state = "none" /\ state' = "wait" /\ UNCHANGED <<box, last>>

Take ==
  /\ state = "wait" /\ box # << >>
  /\ last' = Head(box)
  /\ box' = Tail(box)
  /\ state' = "run"

Finish ==
  /\ state = "run"
  /\ state' = IF last.cmd = "EXIT" THEN "none" ELSE "wait"
  /\ UNCHANGED <<box, last>>

Next == Start \/ Take \/ Finish \/ \E c \in Calls : Send(c)

Spec == Init /\ [][Next]_mvars /\ WF_mvars(Take) /\ WF_mvars(Finish)
=============================================================================
