------------------------------- MODULE JpegJobs --------------------------------
(***************************************************************************)
(* The jobs of the JPEG encoder interface (mm-jpeg-interface/src/mm_jpeg.c *)
(* and its interface): the clients' calls, which g_intf_lock takes one by  *)
(* one, the job manager thread and the callbacks of the OMX component.     *)
(* job_lock is taken by the manager and by the calls that end jobs; the    *)
(* callbacks hold the lock of their session, and nothing else.             *)
(*                                                                         *)
(* MM_JPEG_CONCURRENT_SESSIONS_COUNT is 1 on this board (Android.mk:44),   *)
(* so a session has one OMX handle.  Burst mode is off, as by default: a   *)
(* job names its output buffer.  Left out: how a job is configured, but    *)
(* that it may fail; decoding; sessions that cannot be created.            *)
(***************************************************************************)
EXTENDS Lists, FiniteSets, SequencesExt

CONSTANTS
  Clients,
  MaxJobs,    \* bound: jobs of a client
  MaxWakes    \* bound: wake-ups left over when a session is created

ASSUME ClientsAssumption == Clients # {} /\ MaxJobs \in Nat /\ MaxWakes \in Nat

Jobs == Clients \X (1 .. MaxJobs)
Exit == <<"exit", 0>>

VARIABLES
  job_queue, job_sem, ongoing_job_q,
  job_lock,       \* who has it
  session,        \* a session for each client
  omx,            \* what its OMX component does
  callback,       \* where the component's callback is, with the session's lock
  mgr, mgrJob,    \* where the manager thread is, and its job
  api,            \* the call that has g_intf_lock
  clients,        \* the open clients
  started,        \* jobs started by each
  status          \* what became of each job

mgrVars == <<mgr, mgrJob>>
apiVars == <<api, clients, started>>
jobVars == <<job_queue, job_sem, ongoing_job_q, job_lock>>
vars == <<jobVars, session, omx, callback, mgrVars, apiVars, status>>

Session == [active : BOOLEAN, abort_state : {"NONE", "INIT", "DONE"}, encoding : BOOLEAN,
            handles : 0 .. 1, jobId : Jobs \cup {Exit}]
Call    == [op : {"none", "start", "abort", "destroy", "close"}, c : Clients,
            at : {"none", "lock", "abort", "wait", "end", "post", "join"}]
NoSession == [active |-> FALSE, abort_state |-> "NONE", encoding |-> FALSE, handles |-> 0, jobId |-> Exit]
Idle == [op |-> "none", c |-> CHOOSE c \in Clients : TRUE, at |-> "none"]

TypeOK ==
  /\ job_queue \in Seq(Jobs \cup {Exit})
  /\ job_sem \in Nat
  /\ ongoing_job_q \subseteq Jobs
  /\ job_lock \in {"free", "mgr", "api"}
  /\ session \in [Clients -> Session]
  /\ omx \in [Clients -> {"off", "busy", "idling"}]
  /\ callback \in [Clients -> {"none", "answered", "removed", "freed"}]
  /\ mgr \in {"wait", "size", "lock", "encode", "give", "failed", "unlock", "exited"}
  /\ mgrJob \in Jobs \cup {Exit}
  /\ api \in Call
  /\ clients \subseteq Clients
  /\ started \in [Clients -> 0 .. MaxJobs]
  /\ status \in [Jobs -> {"none", "started", "answered", "gone"}]

Init ==
  /\ job_queue = << >> /\ job_sem = 0 /\ ongoing_job_q = {} /\ job_lock = "free"
  /\ session = [c \in Clients |-> NoSession]
  /\ omx = [c \in Clients |-> "off"]
  /\ callback = [c \in Clients |-> "none"]
  /\ mgr = "wait" /\ mgrJob = Exit
  /\ api = Idle /\ clients = Clients /\ started = [c \in Clients |-> 0]
  /\ status = [j \in Jobs |-> "none"]

-----------------------------------------------------------------------------
(* What several of the actions do.                                         *)

Current(c) == <<c, started[c]>>
Of(c) == {j \in Jobs : j[1] = c}

\* The callback of the client; a second one or one too late has no place.
Tell(j) == status' = [status EXCEPT ![j] = IF @ = "started" THEN "answered" ELSE "twice"]

\* A call that gives the jobs S up returns.
GiveUp(S) == status' = [j \in Jobs |-> IF j \in S /\ status[j] = "started" THEN "gone" ELSE status[j]]

TakeOff(S) == job_queue' = Without(job_queue, S)

Post == job_sem' = job_sem + 1

-----------------------------------------------------------------------------
(* The calls of the clients.                                               *)

Calls(op, c, at) == api = Idle /\ api' = [op |-> op, c |-> c, at |-> at]
GoesOn(at) == api' = [api EXCEPT !.at = at]
Returns == api' = Idle

\* mm_jpeg_create_session(): job_lock is taken for the configuration.
CreateSession(c) ==
  /\ api = Idle /\ c \in clients /\ ~session[c].active /\ job_lock = "free"
  /\ job_sem <= MaxWakes /\ started[c] < MaxJobs
  /\ session' = [session EXCEPT ![c] = [NoSession EXCEPT !.active = TRUE, !.handles = 1]]
  /\ UNCHANGED <<jobVars, omx, callback, mgrVars, apiVars, status>>

\* mm_jpeg_start_job(), without job_lock.  The postprocessors start one job at a
\* time, and none after abort_job.
StartJob(c) ==
  /\ Calls("start", c, "post")
  /\ session[c].active /\ session[c].abort_state = "NONE"
  /\ started[c] < MaxJobs
  /\ started[c] > 0 => status[Current(c)] # "started"
  /\ LET j == <<c, started[c] + 1>> IN
       /\ started' = [started EXCEPT ![c] = @ + 1]
       /\ job_queue' = Append(job_queue, j)
       /\ status' = [status EXCEPT ![j] = "started"]
  /\ UNCHANGED <<job_sem, ongoing_job_q, job_lock, session, omx, callback, mgrVars, clients>>

\* mm_jpeg_abort_job(), for the last job; the client may have missed its answer.
AbortJob(c) ==
  /\ Calls("abort", c, "lock")
  /\ session[c].active /\ session[c].abort_state = "NONE"
  /\ started[c] > 0 /\ status[Current(c)] \in {"started", "answered"}
  /\ UNCHANGED <<jobVars, session, omx, callback, mgrVars, clients, started, status>>

AbortLocks ==
  LET j == Current(api.c) IN
  /\ api.op = "abort" /\ api.at = "lock" /\ job_lock = "free"
  /\ TakeOff({j})
  /\ IF j \notin ToSet(job_queue) /\ j \in ongoing_job_q
     THEN GoesOn("abort") /\ job_lock' = "api" /\ status' = status
     ELSE Returns /\ job_lock' = "free" /\ GiveUp({j})
  /\ ongoing_job_q' = IF j \in ToSet(job_queue) THEN ongoing_job_q ELSE ongoing_job_q \ {j}
  /\ UNCHANGED <<job_sem, session, omx, callback, mgrVars, clients, started>>

\* mm_jpeg_destroy_session().
DestroySession(c) ==
  /\ Calls("destroy", c, "lock")
  /\ session[c].active
  /\ UNCHANGED <<jobVars, session, omx, callback, mgrVars, clients, started, status>>

DestroyLocks ==
  /\ api.op = "destroy" /\ api.at = "lock" /\ job_lock = "free"
  /\ job_lock' = "api"
  /\ TakeOff(Of(api.c))
  /\ ongoing_job_q' = ongoing_job_q \ Of(api.c)
  /\ GoesOn("abort")
  /\ UNCHANGED <<job_sem, session, omx, callback, mgrVars, clients, started, status>>

\* mm_jpeg_session_abort(), with the session's lock: the component is asked to go
\* to Idle if it encodes.
SessionAborts ==
  LET c == api.c IN
  /\ api.at = "abort" /\ callback[c] = "none"
  /\ \/ /\ session[c].abort_state # "NONE"
        /\ GoesOn("end")
        /\ UNCHANGED <<session, omx>>
     \/ /\ session[c].abort_state = "NONE" /\ session[c].encoding
        /\ session' = [session EXCEPT ![c].abort_state = "INIT"]
        /\ omx' = [omx EXCEPT ![c] = "idling"]
        /\ GoesOn("wait")
     \/ /\ session[c].abort_state = "NONE" /\ ~session[c].encoding
        /\ session' = [session EXCEPT ![c].abort_state = "DONE"]
        /\ omx' = omx
        /\ GoesOn("end")
  /\ UNCHANGED <<jobVars, callback, mgrVars, clients, started, status>>

AbortWaits ==
  /\ api.at = "wait" /\ session[api.c].abort_state = "DONE"
  /\ GoesOn("end")
  /\ UNCHANGED <<jobVars, session, omx, callback, mgrVars, clients, started, status>>

AbortEnds ==
  /\ api.op = "abort" /\ api.at = "end"
  /\ job_lock' = "free"
  /\ GiveUp({Current(api.c)})
  /\ Returns
  /\ UNCHANGED <<job_queue, job_sem, ongoing_job_q, session, omx, callback, mgrVars, clients, started>>

\* mm_jpeg_session_destroy() and the end of mm_jpeg_destroy_session().
DestroyEnds ==
  LET c == api.c IN
  /\ api.op = "destroy" /\ api.at = "end" /\ callback[c] = "none"
  /\ session' = [session EXCEPT ![c] = NoSession]
  /\ omx' = [omx EXCEPT ![c] = "off"]
  /\ job_lock' = "free"
  /\ GiveUp(Of(c))
  /\ GoesOn("post")
  /\ UNCHANGED <<job_queue, job_sem, ongoing_job_q, callback, mgrVars, clients, started>>

\* The last close ends the manager thread: mm_jpeg_jobmgr_thread_release().
Close(c) ==
  /\ c \in clients /\ ~session[c].active
  /\ clients' = clients \ {c}
  /\ IF clients = {c}
     THEN Calls("close", c, "post") /\ job_queue' = Append(job_queue, Exit)
     ELSE api = Idle /\ UNCHANGED <<api, job_queue>>
  /\ UNCHANGED <<job_sem, ongoing_job_q, job_lock, session, omx, callback, mgrVars, started, status>>

\* cam_sem_post(), the last thing these calls do but the join of close.
CallPosts ==
  /\ api.at = "post"
  /\ Post
  /\ IF api.op = "close" THEN GoesOn("join") ELSE Returns
  /\ UNCHANGED <<job_queue, ongoing_job_q, job_lock, session, omx, callback, mgrVars, clients, started, status>>

CloseJoins ==
  /\ api.at = "join" /\ mgr = "exited"
  /\ Returns
  /\ UNCHANGED <<jobVars, session, omx, callback, mgrVars, clients, started, status>>

-----------------------------------------------------------------------------
(* mm_jpeg_jobmgr_thread().                                                *)

MgrWakes ==
  /\ mgr = "wait" /\ job_sem > 0
  /\ job_sem' = job_sem - 1
  /\ mgr' = "size"
  /\ UNCHANGED <<job_queue, ongoing_job_q, job_lock, session, omx, callback, mgrJob, apiVars, status>>

\* Variant: without the check of the jobs under way.
MgrLooksAway ==
  /\ mgr = "size"
  /\ mgr' = "lock"
  /\ UNCHANGED <<jobVars, session, omx, callback, mgrJob, apiVars, status>>

\* The wake-up is used up also when a job is under way.
MgrLooks ==
  /\ mgr = "size"
  /\ mgr' = IF ongoing_job_q = {} THEN "lock" ELSE "wait"
  /\ UNCHANGED <<jobVars, session, omx, callback, mgrJob, apiVars, status>>

MgrFindsNone ==
  /\ mgr = "lock" /\ job_lock = "free" /\ job_queue = << >>
  /\ mgr' = "wait"
  /\ UNCHANGED <<jobVars, session, omx, callback, mgrJob, apiVars, status>>

MgrExits ==
  /\ mgr = "lock" /\ job_lock = "free" /\ job_queue # << >> /\ Head(job_queue) = Exit
  /\ mgr' = "exited"
  /\ job_queue' = Tail(job_queue)
  /\ UNCHANGED <<job_sem, ongoing_job_q, job_lock, session, omx, callback, mgrJob, apiVars, status>>

\* mm_jpeg_process_encoding_job(): without a handle the job goes back to the head
\* of the queue.
MgrTakes ==
  /\ mgr = "lock" /\ job_lock = "free" /\ job_queue # << >> /\ Head(job_queue) # Exit
  /\ LET j == Head(job_queue)  c == j[1] IN
       IF session[c].handles = 0
       THEN mgr' = "wait" /\ UNCHANGED <<mgrJob, job_queue, ongoing_job_q, job_lock, session>>
       ELSE /\ session' = [session EXCEPT ![c].handles = @ - 1, ![c].jobId = j]
            /\ job_queue' = Tail(job_queue)
            /\ ongoing_job_q' = ongoing_job_q \cup {j}
            /\ job_lock' = "mgr"
            /\ mgr' = "encode" /\ mgrJob' = j
  /\ UNCHANGED <<job_sem, omx, callback, apiVars, status>>

\* mm_jpeg_session_encode() up to the buffers, with the session's lock.
MgrEncodes ==
  LET c == mgrJob[1] IN
  /\ mgr = "encode" /\ callback[c] = "none"
  /\ \/ /\ session' = [session EXCEPT ![c].abort_state = "NONE", ![c].encoding = TRUE]
        /\ mgr' = "give" /\ status' = status
     \/ /\ session' = [session EXCEPT ![c].abort_state = "NONE", ![c].encoding = FALSE]
        /\ mgr' = "failed" /\ Tell(mgrJob)
  /\ UNCHANGED <<jobVars, omx, callback, mgrJob, apiVars>>

\* OMX_EmptyThisBuffer() and OMX_FillThisBuffer(): the component may answer before
\* the manager gives job_lock up.
MgrGives ==
  /\ mgr = "give"
  /\ omx' = [omx EXCEPT ![mgrJob[1]] = "busy"]
  /\ mgr' = "unlock"
  /\ UNCHANGED <<jobVars, session, callback, mgrJob, apiVars, status>>

\* mm_jpegenc_job_done() of a job that could not be started.
MgrFailed ==
  /\ mgr = "failed"
  /\ ongoing_job_q' = ongoing_job_q \ {mgrJob}
  /\ session' = [session EXCEPT ![mgrJob[1]].handles = @ + 1, ![mgrJob[1]].encoding = FALSE]
  /\ Post
  /\ mgr' = "unlock"
  /\ UNCHANGED <<job_queue, job_lock, omx, callback, mgrJob, apiVars, status>>

MgrUnlocks ==
  /\ mgr = "unlock"
  /\ job_lock' = "free"
  /\ mgr' = "wait" /\ mgrJob' = Exit
  /\ UNCHANGED <<job_queue, job_sem, ongoing_job_q, session, omx, callback, apiVars, status>>

Mgr ==
  \/ MgrWakes \/ MgrLooks \/ MgrFindsNone \/ MgrExits \/ MgrTakes
  \/ MgrEncodes \/ MgrGives \/ MgrFailed \/ MgrUnlocks

-----------------------------------------------------------------------------
(* The callbacks of the component, with the session's lock.                *)

\* mm_jpeg_fbd(), and mm_jpeg_event_handler() for an error while encoding.
Finishes(c) ==
  /\ omx[c] = "busy" /\ callback[c] = "none" /\ session[c].abort_state = "NONE"
  /\ omx' = [omx EXCEPT ![c] = "off"]
  /\ Tell(session[c].jobId)
  /\ callback' = [callback EXCEPT ![c] = "answered"]
  /\ UNCHANGED <<jobVars, session, mgrVars, apiVars>>

\* mm_jpeg_event_handler() while aborting, for the change of state or an error; a
\* buffer that comes earlier is dropped by mm_jpeg_fbd().
Idles(c) ==
  /\ omx[c] = "idling" /\ callback[c] = "none" /\ session[c].abort_state = "INIT"
  /\ omx' = [omx EXCEPT ![c] = "off"]
  /\ session' = [session EXCEPT ![c].abort_state = "DONE"]
  /\ UNCHANGED <<jobVars, callback, mgrVars, apiVars, status>>

\* mm_jpegenc_job_done(), step by step: the manager may look in between.
JobRemoved(c) ==
  /\ callback[c] = "answered"
  /\ ongoing_job_q' = ongoing_job_q \ {session[c].jobId}
  /\ callback' = [callback EXCEPT ![c] = "removed"]
  /\ UNCHANGED <<job_queue, job_sem, job_lock, session, omx, mgrVars, apiVars, status>>

\* Variant: the handle is given back twice.
HandleFreedTwice(c) ==
  /\ callback[c] = "removed"
  /\ session' = [session EXCEPT ![c].encoding = FALSE, ![c].handles = @ + 2]
  /\ callback' = [callback EXCEPT ![c] = "freed"]
  /\ UNCHANGED <<jobVars, omx, mgrVars, apiVars, status>>

HandleFreed(c) ==
  /\ callback[c] = "removed"
  /\ session' = [session EXCEPT ![c].encoding = FALSE, ![c].handles = @ + 1]
  /\ callback' = [callback EXCEPT ![c] = "freed"]
  /\ UNCHANGED <<jobVars, omx, mgrVars, apiVars, status>>

\* Variant: the manager is not woken.
JobDoneSilent(c) ==
  /\ callback[c] = "freed"
  /\ callback' = [callback EXCEPT ![c] = "none"]
  /\ UNCHANGED <<jobVars, session, omx, mgrVars, apiVars, status>>

JobDone(c) ==
  /\ callback[c] = "freed"
  /\ Post
  /\ callback' = [callback EXCEPT ![c] = "none"]
  /\ UNCHANGED <<job_queue, ongoing_job_q, job_lock, session, omx, mgrVars, apiVars, status>>

Component(c) == Finishes(c) \/ Idles(c) \/ JobRemoved(c) \/ HandleFreed(c) \/ JobDone(c)

CallGoesOn ==
  \/ AbortLocks \/ DestroyLocks \/ SessionAborts \/ AbortWaits \/ AbortEnds \/ DestroyEnds
  \/ CallPosts \/ CloseJoins

-----------------------------------------------------------------------------
Next ==
  \/ \E c \in Clients :
       \/ CreateSession(c) \/ StartJob(c) \/ AbortJob(c) \/ DestroySession(c) \/ Close(c)
       \/ Component(c)
  \/ CallGoesOn
  \/ Mgr

\* The threads run, the component answers or goes to Idle, and a client that gave
\* its job up destroys the session, as both postprocessors do.
Fairness ==
  /\ WF_vars(Mgr) /\ WF_vars(CallGoesOn)
  /\ \A c \in Clients :
       /\ WF_vars(Component(c))
       /\ SF_vars(DestroySession(c) /\ session[c].abort_state # "NONE")

Spec == Init /\ [][Next]_vars /\ Fairness
-----------------------------------------------------------------------------
(* Properties.                                                             *)

\* The handle of a session is free, or held by the manager for its job, by the
\* component or by the callback that is about to give it back; an abort alone
\* takes it away.  And the component works for one session at a time, "only one
\* per time" (mm_jpeg.h:71), for a job that is under way.
HandleHeld(c) ==
  \/ mgr \in {"encode", "give", "failed"} /\ mgrJob[1] = c
  \/ omx[c] # "off"
  \/ callback[c] \in {"answered", "removed"}

HandleKept ==
  \A c \in Clients :
    /\ session[c].active /\ session[c].abort_state = "NONE" =>
         (session[c].handles = 1 <=> ~HandleHeld(c))
    /\ HandleHeld(c) => session[c].active
    /\ omx[c] # "off" => \A d \in Clients \ {c} : omx[d] = "off"

\* Jobs are answered once and not after they were given up, and every job is,
\* although wake-ups of the manager are used up while a job is under way.
Service == INSTANCE JpegService
ServiceSpec == Service!Spec
=============================================================================
