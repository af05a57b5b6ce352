-------------------------------- MODULE Agps ---------------------------------
(***************************************************************************)
(* The AGPS manager (gps/gnss/Agps.cpp) between the modem, which asks for  *)
(* data connections (requestATL, releaseATL), and the framework, which     *)
(* sets them up.  A state machine per interface keeps the handles that use *)
(* its connection.  All of it runs on the adapter's message thread; modem  *)
(* and framework post messages, but for an open that succeeded with an     *)
(* unusable APN, which the framework's own thread reports as a close, here *)
(* in one step with the message thread waiting, and for one answered       *)
(* without an APN, which is dropped.                                       *)
(*                                                                         *)
(* requestATL subscribes with mWaitForCloseComplete = false, so no         *)
(* subscriber ever is inactive and the state RELEASING is never entered;   *)
(* both are left out, and so are types, APNs and bearers.                  *)
(* deleteSubscriber compares the rest of its list with the subscriber it   *)
(* has freed, which is taken to equal no other.  handleModemSSR is never   *)
(* called.  The framework is assumed to answer the calls of an interface   *)
(* in their order.                                                         *)
(***************************************************************************)
EXTENDS Integers, Sequences

CONSTANTS
  Handles,       \* connection handles of the modem
  MaxRequests    \* bound: requests of the modem

ASSUME MaxRequestsAssumption == MaxRequests \in Nat

Nifs   == {"agnss", "internet"}
States == {"RELEASED", "PENDING", "ACQUIRED"}

Msg == [kind : {"request"}, h : Handles, nif : Nifs]
       \cup [kind : {"release"}, h : Handles]
       \cup [kind : {"opened", "failed", "closed"}, nif : Nifs]

VARIABLES
  machines,     \* the interfaces that have a state machine
  mState, mSubscriberList,
  msgs,         \* the adapter's message queue
  requests,     \* requests made so far
  modem,        \* what the modem thinks of a handle
  calls,        \* calls the framework has still to answer
  up,           \* the framework's connections
  ignored       \* was an open answered in vain while the machine was PENDING

smVars == <<machines, mState, mSubscriberList>>
fwVars == <<calls, up, ignored>>
vars == <<smVars, msgs, requests, modem, fwVars>>

TypeOK ==
  /\ machines \subseteq Nifs
  /\ mState \in [Nifs -> States]
  /\ mSubscriberList \in [Nifs -> SUBSET Handles]
  /\ msgs \in Seq(Msg)
  /\ requests \in 0 .. MaxRequests
  /\ modem \in [Handles -> {"idle", "asked", "open", "closing"}]
  /\ calls \in [Nifs -> Seq(BOOLEAN)]
  /\ up \in [Nifs -> BOOLEAN]
  /\ ignored \in BOOLEAN

Init ==
  /\ machines \in SUBSET Nifs
  /\ mState = [n \in Nifs |-> "RELEASED"]
  /\ mSubscriberList = [n \in Nifs |-> {}]
  /\ msgs = << >>
  /\ requests = 0
  /\ modem = [h \in Handles |-> "idle"]
  /\ calls = [n \in Nifs |-> << >>]
  /\ up = [n \in Nifs |-> FALSE]
  /\ ignored = FALSE

-----------------------------------------------------------------------------
(* The modem, through GnssAdapter::requestATL and releaseATL.              *)

Post(m) == msgs' = Append(msgs, m)

Request(h, n) ==
  /\ modem[h] = "idle" /\ requests < MaxRequests
  /\ requests' = requests + 1
  /\ modem' = [modem EXCEPT ![h] = "asked"]
  /\ Post([kind |-> "request", h |-> h, nif |-> n])
  /\ UNCHANGED <<smVars, fwVars>>

Release(h) ==
  /\ modem[h] \in {"asked", "open"}
  /\ modem' = [modem EXCEPT ![h] = "closing"]
  /\ Post([kind |-> "release", h |-> h])
  /\ UNCHANGED <<smVars, requests, fwVars>>

-----------------------------------------------------------------------------
(* The state machine.  atlOpenStatus and atlCloseStatus are what the modem *)
(* is told of a set H of handles.                                          *)

ToldOpen(H)  == [h \in Handles |-> IF h \in H /\ modem[h] = "asked" THEN "open" ELSE modem[h]]
ToldClosed(H) == [h \in Handles |-> IF h \in H THEN "idle" ELSE modem[h]]

\* transitionState() with the new list of subscribers.
Become(n, state, list) ==
  /\ mState' = [mState EXCEPT ![n] = state]
  /\ mSubscriberList' = [mSubscriberList EXCEPT ![n] = list]
  /\ UNCHANGED machines

\* requestOrReleaseDataConn().
Call(n, request) == calls' = [calls EXCEPT ![n] = Append(@, request)]

\* Variant: the new subscriber of an open connection is not told.
SubscribeSilently(h, n) ==
  LET list == mSubscriberList[n] \cup {h} IN
  \/ /\ n \notin machines
     /\ modem' = ToldClosed({h})
     /\ UNCHANGED <<smVars, calls>>
  \/ /\ n \in machines /\ mState[n] = "RELEASED"
     /\ Become(n, "PENDING", list)
     /\ Call(n, TRUE)
     /\ modem' = modem
  \/ /\ n \in machines /\ mState[n] \in {"PENDING", "ACQUIRED"}
     /\ Become(n, mState[n], list)
     /\ UNCHANGED <<calls, modem>>

\* requestATL() and processAgpsEventSubscribe(): the first subscriber asks for a
\* connection; one more waits for it with the others, or is told at once.
Subscribe(h, n) ==
  LET list == mSubscriberList[n] \cup {h} IN
  \/ /\ n \notin machines
     /\ modem' = ToldClosed({h})
     /\ UNCHANGED <<smVars, calls>>
  \/ /\ n \in machines /\ mState[n] = "RELEASED"
     /\ Become(n, "PENDING", list)
     /\ Call(n, TRUE)
     /\ modem' = modem
  \/ /\ n \in machines /\ mState[n] = "PENDING"
     /\ Become(n, "PENDING", list)
     /\ UNCHANGED <<calls, modem>>
  \/ /\ n \in machines /\ mState[n] = "ACQUIRED"
     /\ Become(n, "ACQUIRED", list)
     /\ modem' = ToldOpen({h})
     /\ calls' = calls

\* Variant: the machine stays as it is without subscribers.
UnsubscribeStays(h, n) ==
  LET list == mSubscriberList[n] \ {h} IN
  /\ h \in mSubscriberList[n]
  /\ Become(n, mState[n], list)
  /\ calls' = calls
  /\ modem' = ToldClosed({h})

\* processAgpsEventUnsubscribe() for a subscriber that does not wait: it is told
\* and removed, and the last one takes the connection down.
Unsubscribe(h, n) ==
  LET list == mSubscriberList[n] \ {h} IN
  /\ h \in mSubscriberList[n]
  /\ IF list = {}
     THEN Become(n, "RELEASED", list) /\ Call(n, FALSE)
     ELSE Become(n, mState[n], list) /\ calls' = calls
  /\ modem' = ToldClosed({h})

\* releaseATL(): the first machine that knows the handle; none is only logged.
ReleaseATL(h) ==
  \/ Unsubscribe(h, "agnss")
  \/ h \notin mSubscriberList["agnss"] /\ Unsubscribe(h, "internet")
  \/ /\ \A n \in Nifs : h \notin mSubscriberList[n]
     /\ UNCHANGED <<smVars, calls, modem>>

\* processAgpsEventGranted().
Granted(n) ==
  IF mState[n] = "PENDING"
  THEN /\ Become(n, "ACQUIRED", mSubscriberList[n])
       /\ modem' = ToldOpen(mSubscriberList[n])
  ELSE UNCHANGED <<smVars, modem>>

\* Every subscriber is told and removed.
DropAll(n) ==
  /\ Become(n, "RELEASED", {})
  /\ modem' = ToldClosed(mSubscriberList[n])

\* processAgpsEventReleased() and processAgpsEventDenied().
\* Variant: a forced release is taken for a release that goes on.
ReleasedSlowly(n) ==
  IF mState[n] = "ACQUIRED"
  THEN /\ Become(n, "RELEASING", {})
       /\ modem' = ToldClosed(mSubscriberList[n])
  ELSE UNCHANGED <<smVars, modem>>

Released(n) == IF mState[n] = "ACQUIRED" THEN DropAll(n) ELSE UNCHANGED <<smVars, modem>>

\* Variant: a failure is taken for something that was asked before.
DeniedIgnored(n) == UNCHANGED <<smVars, modem>>

Denied(n) == IF mState[n] = "PENDING" THEN DropAll(n) ELSE UNCHANGED <<smVars, modem>>

\* The message thread takes the next message.
Handle ==
  /\ msgs # << >>
  /\ LET m == Head(msgs) IN
       \/ m.kind = "request" /\ Subscribe(m.h, m.nif)
       \/ m.kind = "release" /\ ReleaseATL(m.h)
       \/ m.kind = "opened" /\ Granted(m.nif) /\ calls' = calls
       \/ m.kind = "failed" /\ Denied(m.nif) /\ calls' = calls
       \/ m.kind = "closed" /\ Released(m.nif) /\ calls' = calls
  /\ msgs' = Tail(msgs)
  /\ UNCHANGED <<requests, up, ignored>>

-----------------------------------------------------------------------------
(* The framework, through agpsOpenResultCb and agpsCloseResultCb: it       *)
(* answers the calls for an interface in order.                            *)

Answer(n, request, now) ==
  /\ calls[n] # << >> /\ Head(calls[n]) = request
  /\ calls' = [calls EXCEPT ![n] = Tail(@)]
  /\ up' = [up EXCEPT ![n] = now]

Report(kind, n) ==
  /\ Post([kind |-> kind, nif |-> n])
  /\ UNCHANGED <<smVars, modem, ignored>>

Opens(n) == Answer(n, TRUE, TRUE) /\ Report("opened", n)

Ignored(n) == ignored' = (ignored \/ mState[n] = "PENDING")

\* dataConnOpenCommand() with an APN it refuses: reportAtlClosed() at once, on
\* the framework's thread.
OpensUnusable(n) ==
  /\ Answer(n, TRUE, TRUE)
  /\ Released(n) /\ Ignored(n) /\ msgs' = msgs

\* agpsOpenResultCb() without an APN: success or failure, the answer is only logged.
OpenDropped(n) ==
  /\ \E now \in {TRUE, up[n]} : Answer(n, TRUE, now)
  /\ Ignored(n) /\ UNCHANGED <<smVars, modem, msgs>>

Fails(n)  == \E request \in BOOLEAN : Answer(n, request, up[n]) /\ Report("failed", n)
Closes(n) == Answer(n, FALSE, FALSE) /\ Report("closed", n)

Framework(n) ==
  /\ Opens(n) \/ OpensUnusable(n) \/ OpenDropped(n) \/ Fails(n) \/ Closes(n)
  /\ UNCHANGED requests

\* The connection is lost.
Lost(n) ==
  /\ up[n]
  /\ up' = [up EXCEPT ![n] = FALSE]
  /\ Report("closed", n)
  /\ UNCHANGED <<requests, calls>>

-----------------------------------------------------------------------------
Next ==
  \/ \E h \in Handles, n \in Nifs : Request(h, n)
  \/ \E h \in Handles : Release(h)
  \/ Handle
  \/ \E n \in Nifs : Framework(n) \/ Lost(n)

\* Messages are handled and the framework answers.
Fairness == WF_vars(Handle) /\ \A n \in Nifs : WF_vars(Framework(n))

Spec == Init /\ [][Next]_vars /\ Fairness
-----------------------------------------------------------------------------
(* Properties.                                                             *)

\* "Subscriber list should be empty if we are in released state"
\* (Agps.cpp:201): and only then, so that a connection is wanted exactly while
\* somebody wants it, in whatever order the modem's requests and the framework's
\* answers to earlier ones come.
ReleasedWhenUnused == \A n \in Nifs : mState[n] = "RELEASED" <=> mSubscriberList[n] = {}

\* What the modem was told is so: a handle told open is a subscriber of a machine
\* that is ACQUIRED, and those were all told open; nobody waiting for a connection
\* was.  A subscriber is on one list only, although releaseATL() looks no further
\* than the first that knows the handle.
GrantsAgree ==
  \A h \in Handles :
    /\ modem[h] = "open" => \E n \in Nifs : h \in mSubscriberList[n]
    /\ \A n \in Nifs : h \in mSubscriberList[n] =>
         /\ modem[h] \in {"closing", IF mState[n] = "ACQUIRED" THEN "open" ELSE "asked"}
         /\ \A o \in Nifs \ {n} : h \notin mSubscriberList[o]

\* Every request is answered: the framework may be late, its answers may be
\* meant for a connection given up meanwhile, but the handle is told open or
\* closed in the end.  A PENDING machine ignores the close an open with an unusable
\* APN is reported as, and is not told of one without an APN, hence the condition;
\* at any other time such an answer does no harm.
EveryRequestAnswered ==
  \A h \in Handles :
    (~ignored /\ modem[h] \in {"asked", "closing"}) ~> (ignored \/ modem[h] \in {"open", "idle"})
=============================================================================
