------------------------------ MODULE AgpsProofs -------------------------------
(***************************************************************************)
(* Agps for any set of handles and any number of requests: the state and   *)
(* the list of a machine agree, and so does what the modem was told.  The  *)
(* invariant has to add where a handle may be: at most one request of it   *)
(* waits in the message queue, and while it does the handle is not on a    *)
(* list and was not told open.                                             *)
(***************************************************************************)
EXTENDS Agps, TLAPS

Asks(q, i, h) == i \in 1 .. Len(q) /\ q[i].kind = "request" /\ q[i].h = h

RequestsWait ==
  \A h \in Handles, i \in Nat : Asks(msgs, i, h) =>
    /\ modem[h] \in {"asked", "closing"}
    /\ \A n \in Nifs : h \notin mSubscriberList[n]
    /\ \A j \in Nat : Asks(msgs, j, h) => j = i

IInv == TypeOK /\ ReleasedWhenUnused /\ GrantsAgree /\ RequestsWait

-----------------------------------------------------------------------------
(* The message queue.                                                      *)

\* A message posted is a request of h only if it says so, and is the last.
LEMMA PostAsks ==
  ASSUME NEW q \in Seq(Msg), NEW m \in Msg, NEW h \in Handles, NEW i \in Nat,
         Asks(Append(q, m), i, h)
  PROVE  \/ Asks(q, i, h)
         \/ i = Len(q) + 1 /\ m.kind = "request" /\ m.h = h
<1>1. Len(Append(q, m)) = Len(q) + 1
  OBVIOUS
<1>2. CASE i = Len(q) + 1
  <2>1. Append(q, m)[i] = m
    BY <1>2
  <2> QED
    BY <1>2, <2>1 DEF Asks
<1>3. CASE i # Len(q) + 1
  <2>1. i \in 1 .. Len(q)
    BY <1>1, <1>3 DEF Asks
  <2>2. Append(q, m)[i] = q[i]
    BY <2>1
  <2> QED
    BY <2>1, <2>2 DEF Asks
<1> QED
  BY <1>2, <1>3

\* What is still in the queue was one place further back.
LEMMA TailAsks ==
  ASSUME NEW q \in Seq(Msg), q # << >>, NEW h \in Handles, NEW i \in Nat,
         Asks(Tail(q), i, h)
  PROVE  i + 1 \in Nat /\ i + 1 # 1 /\ Asks(q, i + 1, h)
<1>1. Len(Tail(q)) = Len(q) - 1
  OBVIOUS
<1>2. i \in 1 .. Len(q) - 1
  BY <1>1 DEF Asks
<1>3. Tail(q)[i] = q[i + 1]
  BY <1>2
<1> QED
  BY <1>2, <1>3 DEF Asks

\* A request is a record of its own: neither kind has a handle for nothing.
LEMMA MsgFields ==
  ASSUME NEW m \in Msg
  PROVE  /\ m.kind = "request" => m.h \in Handles /\ m.nif \in Nifs
         /\ m.kind = "release" => m.h \in Handles
         /\ m.kind \in {"opened", "failed", "closed"} => m.nif \in Nifs
BY DEF Msg

-----------------------------------------------------------------------------
LEMMA InitIInv == Init => IInv
<1> SUFFICES ASSUME Init PROVE IInv
  OBVIOUS
<1>0. ignored \in BOOLEAN
  BY DEF Init
<1>1. TypeOK
  BY <1>0, MaxRequestsAssumption DEF Init, TypeOK, States
<1>2. ReleasedWhenUnused
  BY DEF Init, ReleasedWhenUnused
<1>3. GrantsAgree
  BY DEF Init, GrantsAgree
<1>4. RequestsWait
  BY DEF Init, RequestsWait, Asks
<1> QED
  BY <1>1, <1>2, <1>3, <1>4 DEF IInv

\* When nothing is posted or taken, requests keep waiting.
LEMMA TakeAsks ==
  ASSUME IInv, msgs # << >>, msgs' = Tail(msgs), NEW h \in Handles, NEW i \in Nat,
         Asks(msgs', i, h)
  PROVE  /\ modem[h] \in {"asked", "closing"}
         /\ \A n \in Nifs : h \notin mSubscriberList[n]
         /\ \A j \in Nat : Asks(msgs', j, h) => j = i
         /\ ~(Head(msgs).kind = "request" /\ Head(msgs).h = h)
<1>0. msgs \in Seq(Msg) /\ RequestsWait
  BY DEF IInv, TypeOK
<1>1. i + 1 \in Nat /\ i + 1 # 1 /\ Asks(msgs, i + 1, h)
  BY <1>0, TailAsks
<1>2. \A j \in Nat : Asks(msgs, j, h) => j = i + 1
  BY <1>0, <1>1 DEF RequestsWait
<1>3. \A j \in Nat : Asks(msgs', j, h) => j = i
  <2> SUFFICES ASSUME NEW j \in Nat, Asks(msgs', j, h) PROVE j = i
    OBVIOUS
  <2>1. j + 1 \in Nat /\ Asks(msgs, j + 1, h)
    BY <1>0, TailAsks
  <2> QED
    BY <1>2, <2>1
<1>4. ASSUME Head(msgs).kind = "request", Head(msgs).h = h PROVE FALSE
  <2>1. Asks(msgs, 1, h)
    BY <1>0, <1>4 DEF Asks
  <2> QED
    BY <1>1, <1>2, <2>1
<1> QED
  BY <1>0, <1>1, <1>3, <1>4 DEF RequestsWait

-----------------------------------------------------------------------------
(* Steps of the modem.                                                     *)

LEMMA ModemRequest ==
  ASSUME IInv, NEW h \in Handles, NEW n \in Nifs, Request(h, n)
  PROVE  IInv'
<1> DEFINE m == [kind |-> "request", h |-> h, nif |-> n]
<1>0. /\ TypeOK /\ ReleasedWhenUnused /\ GrantsAgree /\ RequestsWait
      /\ m \in Msg /\ m.kind = "request" /\ m.h = h
      /\ msgs \in Seq(Msg)
      /\ msgs' = Append(msgs, m)
      /\ modem[h] = "idle" /\ requests < MaxRequests /\ requests' = requests + 1
      /\ modem' = [modem EXCEPT ![h] = "asked"]
      /\ modem \in [Handles -> {"idle", "asked", "open", "closing"}]
      /\ UNCHANGED <<machines, mState, mSubscriberList, calls, up, ignored>>
  BY DEF IInv, TypeOK, Request, Post, Msg, smVars, fwVars
<1> HIDE DEF m
<1>1. TypeOK'
  BY <1>0, MaxRequestsAssumption DEF TypeOK
<1>2. ReleasedWhenUnused'
  BY <1>0 DEF ReleasedWhenUnused
<1>3. \A k \in Nifs : h \notin mSubscriberList[k]
  BY <1>0 DEF GrantsAgree
<1>4. GrantsAgree'
  BY <1>0, <1>3 DEF GrantsAgree
<1>5. RequestsWait'
  <2> SUFFICES ASSUME NEW g \in Handles, NEW i \in Nat, Asks(msgs', i, g)
               PROVE  /\ modem'[g] \in {"asked", "closing"}
                      /\ \A k \in Nifs : g \notin mSubscriberList'[k]
                      /\ \A j \in Nat : Asks(msgs', j, g) => j = i
    BY DEF RequestsWait
  <2>1. \A j \in Nat : Asks(msgs', j, g) => Asks(msgs, j, g) \/ (j = Len(msgs) + 1 /\ g = h)
    BY <1>0, PostAsks
  <2>2. CASE g = h
    <3>1. \A j \in Nat : ~Asks(msgs, j, h)
      BY <1>0 DEF RequestsWait
    <3> QED
      BY <1>0, <1>3, <2>1, <2>2, <3>1
  <2>3. CASE g # h
    BY <1>0, <2>1, <2>3 DEF RequestsWait
  <2> QED
    BY <2>2, <2>3
<1> QED
  BY <1>1, <1>2, <1>4, <1>5 DEF IInv

LEMMA ModemRelease ==
  ASSUME IInv, NEW h \in Handles, Release(h)
  PROVE  IInv'
<1> DEFINE m == [kind |-> "release", h |-> h]
<1>0. /\ TypeOK /\ ReleasedWhenUnused /\ GrantsAgree /\ RequestsWait
      /\ m \in Msg /\ m.kind = "release"
      /\ msgs \in Seq(Msg)
      /\ msgs' = Append(msgs, m)
      /\ modem[h] \in {"asked", "open"}
      /\ modem' = [modem EXCEPT ![h] = "closing"]
      /\ modem \in [Handles -> {"idle", "asked", "open", "closing"}]
      /\ UNCHANGED <<machines, mState, mSubscriberList, requests, calls, up, ignored>>
  BY DEF IInv, TypeOK, Release, Post, Msg, smVars, fwVars
<1> HIDE DEF m
<1>1. TypeOK'
  BY <1>0 DEF TypeOK
<1>2. ReleasedWhenUnused'
  BY <1>0 DEF ReleasedWhenUnused
<1>3. GrantsAgree'
  BY <1>0 DEF GrantsAgree
<1>4. RequestsWait'
  <2> SUFFICES ASSUME NEW g \in Handles, NEW i \in Nat, Asks(msgs', i, g)
               PROVE  /\ modem'[g] \in {"asked", "closing"}
                      /\ \A k \in Nifs : g \notin mSubscriberList'[k]
                      /\ \A j \in Nat : Asks(msgs', j, g) => j = i
    BY DEF RequestsWait
  <2>1. \A j \in Nat : Asks(msgs', j, g) => Asks(msgs, j, g)
    BY <1>0, PostAsks
  <2> QED
    BY <1>0, <2>1 DEF RequestsWait
<1> QED
  BY <1>1, <1>2, <1>3, <1>4 DEF IInv

-----------------------------------------------------------------------------
(* Steps of a machine, whatever happens to the queue.                      *)

MachineTypes ==
  /\ mState \in [Nifs -> States]
  /\ mSubscriberList \in [Nifs -> SUBSET Handles]
  /\ modem \in [Handles -> {"idle", "asked", "open", "closing"}]

MachineInv == MachineTypes /\ ReleasedWhenUnused /\ GrantsAgree

\* A handle keeps waiting for its request unless that is the one handled.
KeepsWaiting(H) ==
  \A g \in Handles \ H :
    /\ modem[g] \in {"asked", "closing"}
    /\ \A k \in Nifs : g \notin mSubscriberList[k]
    => /\ modem'[g] = modem[g]
       /\ \A k \in Nifs : g \notin mSubscriberList'[k]

LEMMA Subscribes ==
  ASSUME MachineInv, NEW h \in Handles, NEW n \in Nifs, Subscribe(h, n),
         modem[h] \in {"asked", "closing"}, \A k \in Nifs : h \notin mSubscriberList[k]
  PROVE  MachineInv' /\ KeepsWaiting({h})
<1> USE DEF MachineInv, MachineTypes
<1>1. CASE n \notin machines /\ modem' = ToldClosed({h}) /\ UNCHANGED <<smVars, calls>>
  BY <1>1 DEF ToldClosed, smVars, ReleasedWhenUnused, GrantsAgree, KeepsWaiting
<1>2. CASE mState[n] = "RELEASED" /\ Become(n, "PENDING", mSubscriberList[n] \cup {h}) /\ modem' = modem
  BY <1>2 DEF Become, States, ReleasedWhenUnused, GrantsAgree, KeepsWaiting
<1>3. CASE mState[n] = "PENDING" /\ Become(n, "PENDING", mSubscriberList[n] \cup {h}) /\ modem' = modem
  BY <1>3 DEF Become, States, ReleasedWhenUnused, GrantsAgree, KeepsWaiting
<1>4. CASE mState[n] = "ACQUIRED" /\ Become(n, "ACQUIRED", mSubscriberList[n] \cup {h}) /\ modem' = ToldOpen({h})
  BY <1>4 DEF Become, ToldOpen, States, ReleasedWhenUnused, GrantsAgree, KeepsWaiting
<1> QED
  BY <1>1, <1>2, <1>3, <1>4 DEF Subscribe

LEMMA Unsubscribes ==
  ASSUME MachineInv, NEW h \in Handles, NEW n \in Nifs, Unsubscribe(h, n)
  PROVE  MachineInv' /\ KeepsWaiting({})
<1> USE DEF MachineInv, MachineTypes
<1> DEFINE list == mSubscriberList[n] \ {h}
<1>0. h \in mSubscriberList[n] /\ modem' = ToldClosed({h}) /\ mState[n] \in {"PENDING", "ACQUIRED"}
  BY DEF Unsubscribe, ReleasedWhenUnused, States
<1>1. CASE list = {} /\ Become(n, "RELEASED", list)
  BY <1>0, <1>1 DEF Become, ToldClosed, States, ReleasedWhenUnused, GrantsAgree, KeepsWaiting
<1>2. CASE list # {} /\ Become(n, mState[n], list)
  BY <1>0, <1>2 DEF Become, ToldClosed, States, ReleasedWhenUnused, GrantsAgree, KeepsWaiting
<1> QED
  BY <1>1, <1>2 DEF Unsubscribe

LEMMA Answers ==
  ASSUME MachineInv, NEW n \in Nifs, Granted(n) \/ Released(n) \/ Denied(n)
  PROVE  MachineInv' /\ KeepsWaiting({})
<1> USE DEF MachineInv, MachineTypes
<1>1. CASE mState[n] = "PENDING" /\ Become(n, "ACQUIRED", mSubscriberList[n]) /\ modem' = ToldOpen(mSubscriberList[n])
  BY <1>1 DEF Become, ToldOpen, States, ReleasedWhenUnused, GrantsAgree, KeepsWaiting
<1>2. CASE DropAll(n)
  BY <1>2 DEF DropAll, Become, ToldClosed, States, ReleasedWhenUnused, GrantsAgree, KeepsWaiting
<1>3. CASE UNCHANGED <<smVars, modem>>
  BY <1>3 DEF smVars, ReleasedWhenUnused, GrantsAgree, KeepsWaiting
<1> QED
  BY <1>1, <1>2, <1>3 DEF Granted, Released, Denied

-----------------------------------------------------------------------------
LEMMA CallsType ==
  ASSUME TypeOK, NEW n \in Nifs, NEW request \in BOOLEAN, Call(n, request)
  PROVE  calls' \in [Nifs -> Seq(BOOLEAN)]
BY DEF TypeOK, Call

LEMMA HandleStep ==
  ASSUME IInv, Handle
  PROVE  IInv'
<1> DEFINE m == Head(msgs)
<1>0. /\ TypeOK /\ MachineInv /\ RequestsWait /\ msgs \in Seq(Msg) /\ msgs # << >>
      /\ msgs' = Tail(msgs) /\ UNCHANGED <<requests, up, ignored>>
      /\ m \in Msg /\ msgs' \in Seq(Msg)
  BY DEF IInv, TypeOK, MachineInv, MachineTypes, Handle
<1>1. CASE m.kind = "request" /\ Subscribe(m.h, m.nif)
  <2>1. m.h \in Handles /\ m.nif \in Nifs
    BY <1>0, <1>1, MsgFields
  <2>2. Asks(msgs, 1, m.h)
    BY <1>0, <1>1 DEF Asks
  <2>3. MachineInv' /\ KeepsWaiting({m.h})
    BY <1>0, <1>1, <2>1, <2>2, Subscribes DEF RequestsWait
  <2>4. calls' \in [Nifs -> Seq(BOOLEAN)]
    BY <1>0, <1>1, <2>1, CallsType DEF Subscribe, TypeOK
  <2>5. machines' = machines
    BY <1>1 DEF Subscribe, Become, smVars
  <2>6. RequestsWait'
    <3> SUFFICES ASSUME NEW g \in Handles, NEW i \in Nat, Asks(msgs', i, g)
                 PROVE  /\ modem'[g] \in {"asked", "closing"}
                        /\ \A k \in Nifs : g \notin mSubscriberList'[k]
                        /\ \A j \in Nat : Asks(msgs', j, g) => j = i
      BY DEF RequestsWait
    <3>1. /\ modem[g] \in {"asked", "closing"}
          /\ \A k \in Nifs : g \notin mSubscriberList[k]
          /\ \A j \in Nat : Asks(msgs', j, g) => j = i
          /\ g # m.h
      BY <1>0, <1>1, TakeAsks
    <3> QED
      BY <2>3, <3>1 DEF KeepsWaiting
  <2> QED
    BY <1>0, <2>3, <2>4, <2>5, <2>6 DEF IInv, TypeOK, MachineInv, MachineTypes
<1>2. CASE \/ m.kind = "release" /\ ReleaseATL(m.h)
           \/ m.kind = "opened" /\ Granted(m.nif) /\ calls' = calls
           \/ m.kind = "failed" /\ Denied(m.nif) /\ calls' = calls
           \/ m.kind = "closed" /\ Released(m.nif) /\ calls' = calls
  <2>1. MachineInv' /\ KeepsWaiting({}) /\ machines' = machines /\ calls' \in [Nifs -> Seq(BOOLEAN)]
    <3>1. CASE m.kind = "release" /\ ReleaseATL(m.h)
      <4>1. m.h \in Handles
        BY <1>0, <3>1, MsgFields
      <4>2. ASSUME NEW n \in Nifs, Unsubscribe(m.h, n)
            PROVE  MachineInv' /\ KeepsWaiting({}) /\ machines' = machines /\ calls' \in [Nifs -> Seq(BOOLEAN)]
        <5>1. MachineInv' /\ KeepsWaiting({})
          BY <1>0, <4>1, <4>2, Unsubscribes
        <5>2. calls' \in [Nifs -> Seq(BOOLEAN)]
          BY <1>0, <4>2, CallsType DEF Unsubscribe, TypeOK
        <5>3. machines' = machines
          BY <4>2 DEF Unsubscribe, Become
        <5> QED
          BY <5>1, <5>2, <5>3
      <4>3. CASE UNCHANGED <<smVars, calls, modem>>
        BY <1>0, <4>3 DEF smVars, MachineInv, MachineTypes, ReleasedWhenUnused, GrantsAgree, KeepsWaiting, TypeOK
      <4> QED
        BY <3>1, <4>2, <4>3 DEF ReleaseATL, Nifs
    <3>2. CASE /\ m.kind \in {"opened", "failed", "closed"} /\ calls' = calls
               /\ Granted(m.nif) \/ Released(m.nif) \/ Denied(m.nif)
      <4>1. m.nif \in Nifs
        BY <1>0, <3>2, MsgFields
      <4>2. MachineInv' /\ KeepsWaiting({})
        BY <1>0, <3>2, <4>1, Answers
      <4>3. machines' = machines
        BY <3>2 DEF Granted, Released, Denied, DropAll, Become, smVars
      <4> QED
        BY <1>0, <3>2, <4>2, <4>3 DEF TypeOK
    <3> QED
      BY <1>2, <3>1, <3>2
  <2>2. RequestsWait'
    <3> SUFFICES ASSUME NEW g \in Handles, NEW i \in Nat, Asks(msgs', i, g)
                 PROVE  /\ modem'[g] \in {"asked", "closing"}
                        /\ \A k \in Nifs : g \notin mSubscriberList'[k]
                        /\ \A j \in Nat : Asks(msgs', j, g) => j = i
      BY DEF RequestsWait
    <3>1. /\ modem[g] \in {"asked", "closing"}
          /\ \A k \in Nifs : g \notin mSubscriberList[k]
          /\ \A j \in Nat : Asks(msgs', j, g) => j = i
      BY <1>0, TakeAsks
    <3> QED
      BY <2>1, <3>1 DEF KeepsWaiting
  <2> QED
    BY <1>0, <2>1, <2>2 DEF IInv, TypeOK, MachineInv, MachineTypes
<1> QED
  BY <1>1, <1>2 DEF Handle

-----------------------------------------------------------------------------
(* Steps of the framework.                                                 *)

\* A message of the framework is nobody's request.
LEMMA ReportKeeps ==
  ASSUME IInv, NEW n \in Nifs, NEW kind \in {"opened", "failed", "closed"}, Report(kind, n)
  PROVE  /\ MachineInv' /\ RequestsWait' /\ machines' = machines
         /\ msgs' \in Seq(Msg)
<1> DEFINE m == [kind |-> kind, nif |-> n]
<1>0. /\ MachineInv /\ RequestsWait /\ msgs \in Seq(Msg)
      /\ m \in Msg /\ m.kind # "request" /\ msgs' = Append(msgs, m)
      /\ UNCHANGED <<machines, mState, mSubscriberList, modem>>
  BY DEF IInv, TypeOK, MachineInv, MachineTypes, Report, Post, Msg, smVars
<1> HIDE DEF m
<1>1. MachineInv'
  BY <1>0 DEF MachineInv, MachineTypes, ReleasedWhenUnused, GrantsAgree
<1>2. \A g \in Handles, i \in Nat : Asks(msgs', i, g) => Asks(msgs, i, g)
  BY <1>0, PostAsks
<1>3. RequestsWait'
  BY <1>0, <1>2 DEF RequestsWait
<1> QED
  BY <1>0, <1>1, <1>3

LEMMA FrameworkStep ==
  ASSUME IInv, NEW n \in Nifs, Framework(n)
  PROVE  IInv'
<1>0. TypeOK /\ MachineInv /\ RequestsWait
  BY DEF IInv, TypeOK, MachineInv, MachineTypes
<1>1. /\ calls' \in [Nifs -> Seq(BOOLEAN)] /\ up' \in [Nifs -> BOOLEAN]
      /\ requests' = requests /\ ignored' \in BOOLEAN
  <2>1. PICK request \in BOOLEAN, now \in BOOLEAN : Answer(n, request, now)
    BY <1>0 DEF Framework, Opens, OpensUnusable, OpenDropped, Fails, Closes, TypeOK
  <2>2. Tail(calls[n]) \in Seq(BOOLEAN)
    BY <1>0, <2>1 DEF TypeOK, Answer
  <2>3. calls' \in [Nifs -> Seq(BOOLEAN)] /\ up' \in [Nifs -> BOOLEAN]
    BY <1>0, <2>1, <2>2 DEF TypeOK, Answer
  <2>4. ignored' \in BOOLEAN
    BY <1>0 DEF Framework, Opens, OpensUnusable, OpenDropped, Fails, Closes, Report, Ignored, TypeOK
  <2> QED
    BY <2>3, <2>4 DEF Framework
<1>2. CASE \E kind \in {"opened", "failed", "closed"} : Report(kind, n)
  BY <1>0, <1>1, <1>2, ReportKeeps DEF IInv, TypeOK, MachineInv, MachineTypes
<1>3. CASE Released(n) /\ msgs' = msgs
  <2>1. MachineInv' /\ KeepsWaiting({})
    BY <1>0, <1>3, Answers
  <2>2. machines' = machines
    BY <1>3 DEF Released, DropAll, Become, smVars
  <2>3. RequestsWait'
    BY <1>0, <1>3, <2>1 DEF RequestsWait, KeepsWaiting
  <2> QED
    BY <1>0, <1>1, <1>3, <2>1, <2>2, <2>3 DEF IInv, TypeOK, MachineInv, MachineTypes
<1>4. CASE UNCHANGED <<smVars, modem, msgs>>
  <2>1. MachineInv'
    BY <1>0, <1>4 DEF smVars, MachineInv, MachineTypes, ReleasedWhenUnused, GrantsAgree
  <2>2. RequestsWait'
    BY <1>0, <1>4 DEF smVars, RequestsWait
  <2> QED
    BY <1>0, <1>1, <1>4, <2>1, <2>2 DEF smVars, IInv, TypeOK, MachineInv, MachineTypes
<1> QED
  BY <1>2, <1>3, <1>4 DEF Framework, Opens, OpensUnusable, OpenDropped, Fails, Closes

LEMMA LostStep ==
  ASSUME IInv, NEW n \in Nifs, Lost(n)
  PROVE  IInv'
<1>1. TypeOK /\ up' \in [Nifs -> BOOLEAN] /\ UNCHANGED <<requests, calls, ignored>>
  BY DEF IInv, Lost, Report, TypeOK
<1> QED
  BY <1>1, ReportKeeps DEF Lost, IInv, TypeOK, MachineInv, MachineTypes

-----------------------------------------------------------------------------
LEMMA NextIInv == IInv /\ [Next]_vars => IInv'
<1> SUFFICES ASSUME IInv, [Next]_vars PROVE IInv'
  OBVIOUS
<1>1. CASE UNCHANGED vars
  <2>1. /\ UNCHANGED <<machines, mState, mSubscriberList, msgs, requests, modem, calls, up>>
        /\ ignored' = ignored
    BY <1>1 DEF vars, smVars, fwVars
  <2>2. TypeOK'
    BY <2>1 DEF IInv, TypeOK
  <2>3. (ReleasedWhenUnused /\ GrantsAgree /\ RequestsWait)'
    BY <2>1 DEF IInv, ReleasedWhenUnused, GrantsAgree, RequestsWait, Asks
  <2> QED
    BY <2>2, <2>3 DEF IInv
<1>2. CASE Next
  BY <1>2, ModemRequest, ModemRelease, HandleStep, FrameworkStep, LostStep DEF Next
<1> QED
  BY <1>1, <1>2

\* The types of all variables of the AGPS manager, for any number of requests.
THEOREM TypesHold == Spec => []TypeOK
<1>1. IInv => TypeOK
  BY DEF IInv
<1> QED
  BY <1>1, InitIInv, NextIInv, PTL DEF Spec

\* "Subscriber list should be empty if we are in released state" (Agps.cpp:201):
\* a machine is RELEASED exactly while it has no subscriber.
THEOREM ReleasedIsUnused == Spec => []ReleasedWhenUnused
<1>1. IInv => ReleasedWhenUnused
  BY DEF IInv
<1> QED
  BY <1>1, InitIInv, NextIInv, PTL DEF Spec

\* What processAgpsEvent...() told the modem about a handle agrees with the
\* machine that has it, and no two machines have it.
THEOREM GrantsAlwaysAgree == Spec => []GrantsAgree
<1>1. IInv => GrantsAgree
  BY DEF IInv
<1> QED
  BY <1>1, InitIInv, NextIInv, PTL DEF Spec
=============================================================================
